---- MODULE Spec2Model ----
(***************************************************************************)
(* Model of the data-synchronisation layer of bot-csv-crud:                *)
(*   src/src/data_loader.py   parsing of the CSV source files              *)
(*   src/src/data_manager.py  BillDataManager: merged store, reload,       *)
(*                            queries, update_payment                      *)
(*   src/src/file_watcher.py  DebouncedFileHandler: debounce, pause/resume *)
(*                                                                         *)
(* Text values (cells, ids) are sequences of one-character strings, so     *)
(* that parse_nominal, isnumeric and str() are computed character by       *)
(* character.  An empty CSV field is read by pandas as NaN and NaN is      *)
(* written back as an empty field: both are the empty sequence here.       *)
(***************************************************************************)
EXTENDS Integers, Sequences, FiniteSets, TLC

\* ------------------------------------------------------------------ bounds
MaxUpd == 2      \* update_payment calls started in one run
MaxExt == 1      \* outside edits of source files in one run
MaxQ == 1        \* file events the observer's queue holds; further ones are lost
MaxTime == 4     \* clock ticks in one run of the timed specification
MaxTouch == 3    \* saves that leave a file's content unchanged, in one run

\* RELOAD_DELAY (src/config.py:33) is 1.0 s; the clock ticks in half seconds.
TicksPerSecond == 2
RELOAD_DELAY == 1
DelayTicks == RELOAD_DELAY * TicksPerSecond

\* ------------------------------------------------------------ text values
DigitChars == {"0", "1", "2", "3", "4", "5", "6", "7", "8", "9"}
Digits == <<"0", "1", "2", "3", "4", "5", "6", "7", "8", "9">>
DigitVal(c) == CHOOSE i \in 0..9 : Digits[i + 1] = c

NaN == <<>>

RECURSIVE KeepDigits(_)
\* re.sub(r'[^\d]', '', s)
KeepDigits(s) ==
    IF s = <<>> THEN <<>>
    ELSE (IF Head(s) \in DigitChars THEN <<Head(s)>> ELSE <<>>) \o KeepDigits(Tail(s))

RECURSIVE ToInt(_)
\* int(s) of a non-empty string of digits
ToInt(s) ==
    IF s = <<>> THEN 0
    ELSE ToInt(SubSeq(s, 1, Len(s) - 1)) * 10 + DigitVal(s[Len(s)])

RECURSIVE Str(_)
\* str(n) of a non-negative integer
Str(n) ==
    IF n < 10 THEN <<Digits[n + 1]>>
    ELSE Str(n \div 10) \o <<Digits[(n % 10) + 1]>>

parse_nominal(value) ==
    IF value = NaN THEN 0
    ELSE LET cleaned == KeepDigits(value)
         IN  IF cleaned = <<>> THEN 0 ELSE ToInt(cleaned)

RECURSIVE strip(_)
\* str.strip() for the blank character
strip(s) ==
    IF s = <<>> THEN s
    ELSE IF Head(s) = " " THEN strip(Tail(s))
    ELSE IF s[Len(s)] = " " THEN strip(SubSeq(s, 1, Len(s) - 1))
    ELSE s

\* str.isnumeric()
isnumeric(s) == s # <<>> /\ \A i \in 1..Len(s) : s[i] \in DigitChars

TOTAL == <<"T", "O", "T", "A", "L">>

Range(s) == {s[i] : i \in 1..Len(s)}

RECURSIVE SelectSeq2(_, _)
\* the subsequence of the rows whose flag in keep is TRUE
SelectSeq2(rows, keep) ==
    IF rows = <<>> THEN <<>>
    ELSE (IF Head(keep) THEN <<Head(rows)>> ELSE <<>>) \o SelectSeq2(Tail(rows), Tail(keep))

RECURSIVE Flatten(_)
Flatten(ss) == IF ss = <<>> THEN <<>> ELSE Head(ss) \o Flatten(Tail(ss))

RECURSIVE Dedup(_)
\* the first occurrences, in order
Dedup(s) ==
    IF s = <<>> THEN <<>>
    ELSE LET init == Dedup(SubSeq(s, 1, Len(s) - 1))
         IN  IF s[Len(s)] \in Range(init) THEN init ELSE Append(init, s[Len(s)])

\* All orders in which a directory listing can return the names of S.
Perms(S) == {p \in [1..Cardinality(S) -> S] : \A i, j \in 1..Cardinality(S) : p[i] = p[j] => i = j}

\* ----------------------------------------------------------------- strings
\* A name, a month label or a typed argument is a string; the str methods
\* work on its characters.
Chars(s) == [i \in 1..Len(s) |-> SubSeq(s, i, i)]

LowerCase == Chars("abcdefghijklmnopqrstuvwxyz")
UpperCase == Chars("ABCDEFGHIJKLMNOPQRSTUVWXYZ")
\* the characters of the model in code point order
CodePoints == Chars(" '-0123456789") \o UpperCase \o LowerCase

Ord(c) == CHOOSE i \in 1..Len(CodePoints) : CodePoints[i] = c

\* str.upper()
upper(s) ==
    [i \in 1..Len(s) |->
       IF s[i] \in Range(LowerCase)
       THEN UpperCase[CHOOSE k \in 1..Len(LowerCase) : LowerCase[k] = s[i]] ELSE s[i]]

\* str.lower()
lower(s) ==
    [i \in 1..Len(s) |->
       IF s[i] \in Range(UpperCase)
       THEN LowerCase[CHOOSE k \in 1..Len(UpperCase) : UpperCase[k] = s[i]] ELSE s[i]]

RECURSIVE StrLess(_, _)
\* a < b of two str values
StrLess(a, b) ==
    IF b = <<>> THEN FALSE
    ELSE IF a = <<>> THEN TRUE
    ELSE IF Head(a) = Head(b) THEN StrLess(Tail(a), Tail(b))
    ELSE Ord(Head(a)) < Ord(Head(b))

RECURSIVE Insert(_, _)
Insert(s, x) ==
    IF s = <<>> THEN <<x>>
    ELSE IF StrLess(x.key, Head(s).key) THEN <<x>> \o s
    ELSE <<Head(s)>> \o Insert(Tail(s), x)

RECURSIVE sorted(_)
\* sorted(s, key=...) of records that carry their key: stable
sorted(s) ==
    IF s = <<>> THEN <<>>
    ELSE Insert(sorted(SubSeq(s, 1, Len(s) - 1)), s[Len(s)])

\* s.split("'"): the pieces between the apostrophes
ApostropheAt(s) == {i \in 1..Len(s) : s[i] = "'"}
RECURSIVE split(_)
split(s) ==
    IF ApostropheAt(s) = {} THEN <<s>>
    ELSE LET i == CHOOSE k \in ApostropheAt(s) : \A j \in ApostropheAt(s) : k <= j
         IN  <<SubSeq(s, 1, i - 1)>> \o split(SubSeq(s, i + 1, Len(s)))

\* ----------------------------------------------------------- source files
\* A billing file:
\*   st     "ok", "partial" (title rows written, table not yet), "bad" (no
\*          header line with Nama and Nominal) or "missing"
\*   pre    the lines before the header row
\*   idcol  the name of the id column in the header row: "No", "ID" or "none"
\*   cols   the columns that follow Nominal in the header row
\*   hdr2   a second header line, written by to_csv below the title rows
\*   extra  columns of the table below the title rows that the header row
\*          does not name
\*   rows   the data lines: [ID, Nominal, cells], cells aligned with cols \o extra
\* "'" in col
HasApostrophe(c) == ApostropheAt(Chars(c)) # {}

NoFile == [st |-> "missing", pre |-> <<>>, idcol |-> "none", cols |-> <<>>,
           hdr2 |-> FALSE, extra |-> <<>>, rows |-> <<>>]
BadFile == [NoFile EXCEPT !.st = "bad"]

\* The result of load_csv; ok = FALSE stands for None.
NoDF == [ok |-> FALSE, hasID |-> FALSE, cols |-> <<>>, rows |-> <<>>]

load_csv(c) ==
    IF c.st \notin {"ok", "partial"} THEN NoDF
    ELSE IF c.extra # <<>>
    THEN \* The lines below the header row have more fields than it names:
         \* the python engine takes the leading field as the index, the id
         \* column holds the names, and no row passes the isnumeric filter.
         [ok |-> TRUE, hasID |-> c.idcol # "none", cols |-> c.cols, rows |-> <<>>]
    ELSE LET keep == [i \in 1..Len(c.rows) |->
                        \/ c.idcol = "none"
                        \/ /\ c.rows[i].ID # NaN
                           /\ strip(c.rows[i].ID) # <<>>
                           /\ strip(c.rows[i].ID) # TOTAL
                           /\ isnumeric(strip(c.rows[i].ID))]
             kept == SelectSeq2(c.rows, keep)
         IN  [ok |-> TRUE, hasID |-> c.idcol # "none", cols |-> c.cols,
              rows |-> [i \in 1..Len(kept) |->
                          [ID |-> kept[i].ID, Nominal |-> kept[i].Nominal,
                           Nominal_Clean |-> parse_nominal(kept[i].Nominal),
                           cells |-> kept[i].cells]]]

\* The master roster: st "ok" or "bad" (missing, unreadable, no ID column);
\* rows [ID, Nama, Desa].
load_master_data(m) ==
    IF m.st # "ok" THEN [ok |-> FALSE, rows |-> <<>>]
    ELSE [ok |-> TRUE,
          rows |-> [i \in 1..Len(m.rows) |-> [m.rows[i] EXCEPT !.ID = strip(m.rows[i].ID)]]]

\* load_billing_data: dir maps each file name of the billing directory to
\* its content, order is the order in which glob("*.csv") lists them.  The
\* result is the dict village -> DataFrame as a sequence of pairs, in
\* insertion order; a file load_csv rejects is skipped.
load_billing_data(dir, order) ==
    LET loaded == [i \in 1..Len(order) |-> load_csv(dir[order[i]])]
        pairs  == [i \in 1..Len(order) |-> [village |-> order[i], bdf |-> loaded[i]]]
    IN  SelectSeq2(pairs, [i \in 1..Len(order) |-> loaded[i].ok])

get_month_columns(cols) == SelectSeq(cols, HasApostrophe)

\* ------------------------------------------------------------ merged store
\* self.df: kind "none" is DataFrame() (no columns), "master" the roster
\* alone (no Source_Village, no month columns), "merged" the left join.
\* cols are the columns that follow Nominal; a row is
\* [ID, Nama, Desa, src, Nominal, Nominal_Clean, cells], cells by column name.
EmptyDF == [kind |-> "none", cols |-> <<>>, rows |-> <<>>]

IndexOf(s, x) == CHOOSE i \in 1..Len(s) : s[i] = x

\* data_manager.py 52-57: the billing frames concatenated in dict order,
\* ID stripped, Source_Village added.
CombinedRows(bdfs) ==
    Flatten([i \in 1..Len(bdfs) |->
               [j \in 1..Len(bdfs[i].bdf.rows) |->
                  [ID |-> strip(bdfs[i].bdf.rows[j].ID),
                   Nominal |-> bdfs[i].bdf.rows[j].Nominal,
                   Nominal_Clean |-> bdfs[i].bdf.rows[j].Nominal_Clean,
                   src |-> bdfs[i].village,
                   fcols |-> bdfs[i].bdf.cols,
                   cells |-> bdfs[i].bdf.rows[j].cells]]])

CombinedCols(bdfs) == Dedup(Flatten([i \in 1..Len(bdfs) |-> bdfs[i].bdf.cols]))

\* One row of the left join: roster row m with billing row b.
JoinRow(m, b, cols) ==
    [ID |-> m.ID, Nama |-> m.Nama, Desa |-> m.Desa, src |-> b.src,
     Nominal |-> b.Nominal, Nominal_Clean |-> b.Nominal_Clean,
     cells |-> [c \in Range(cols) |->
                  IF c \in Range(b.fcols) THEN b.cells[IndexOf(b.fcols, c)] ELSE NaN]]

\* A roster row no billing row matches: every billing column is NaN.
\* str(NaN) is "nan".
LoneRow(m, cols) ==
    [ID |-> m.ID, Nama |-> m.Nama, Desa |-> m.Desa, src |-> "nan",
     Nominal |-> NaN, Nominal_Clean |-> 0,
     cells |-> [c \in Range(cols) |-> NaN]]

\* (variant) the merge with how='inner': a roster row without billing row is
\* lost.
InnerJoin(mrows, crows, cols) ==
    Flatten([i \in 1..Len(mrows) |->
               LET hits == SelectSeq2(crows, [j \in 1..Len(crows) |-> crows[j].ID = mrows[i].ID])
               IN  [j \in 1..Len(hits) |-> JoinRow(mrows[i], hits[j], cols)]])

\* pd.merge(master_df, combined_billing, on='ID', how='left')
LeftJoin(mrows, crows, cols) ==
    Flatten([i \in 1..Len(mrows) |->
               LET hits == SelectSeq2(crows, [j \in 1..Len(crows) |-> crows[j].ID = mrows[i].ID])
               IN  IF hits = <<>> THEN <<LoneRow(mrows[i], cols)>>
                   ELSE [j \in 1..Len(hits) |-> JoinRow(mrows[i], hits[j], cols)]])

\* data_manager.py 59-66: the frame _load_data assigns to self.df.
MergedDF(mrows, bdfs) ==
    IF CombinedRows(bdfs) = <<>>
    THEN [kind |-> "master", cols |-> <<>>,
          rows |-> [i \in 1..Len(mrows) |-> LoneRow(mrows[i], <<>>)]]
    ELSE [kind |-> "merged", cols |-> CombinedCols(bdfs),
          rows |-> LeftJoin(mrows, CombinedRows(bdfs), CombinedCols(bdfs))]

\* ------------------------------------------------------------------ state
Villages == {"a", "b"}          \* the stems of the billing files
TmpName == "a_tmp_"             \* the name mkstemp gives the staged file
Callers == {"c1", "c2"}         \* worker threads of asyncio.to_thread
CbThreads == {"t1"}             \* threads of fired threading.Timer objects
Procs == Callers \cup CbThreads
NoOwner == "free"

VARIABLES
    master,         \* content of the master roster file
    billing,        \* village -> content of <village>.csv in the billing directory
    tmp,            \* content of the staged temporary file (NoFile: none)
    order,          \* the order in which the directory lists the billing files
    df,             \* BillDataManager.df
    month_columns,  \* BillDataManager.month_columns
    billing_dfs,    \* BillDataManager.billing_dfs
    lock,           \* owner of BillDataManager.lock
    file_watcher,   \* BillDataManager.file_watcher is set (the watcher started)
    pc,             \* thread -> position in its operation
    loc,            \* thread -> arguments and locals of its operation
    paused,         \* DebouncedFileHandler.paused
    timer,          \* DebouncedFileHandler.timer
    orphans,        \* started timers self.timer no longer refers to, not cancelled, not fired
    last_call,      \* DebouncedFileHandler.last_call
    delay,          \* DebouncedFileHandler.delay, in ticks
    hpc,            \* the observer thread: position in on_modified / on_moved
    evq,            \* file events the observer has not dispatched yet
    now,            \* the clock, in ticks
    committed,      \* history: the snapshot the last successful _load_data installed
    acc,            \* history: the cell last written by update_payment and its expected amount
    burst,          \* history: events and callbacks of the current debounce burst
    nUpd, nExt      \* history: update_payment calls and outside edits so far

fileVars == <<master, billing, tmp, order>>
storeVars == <<df, month_columns, billing_dfs, lock, file_watcher>>
watchVars == <<paused, timer, orphans, last_call, delay, hpc, evq>>
histVars == <<committed, acc, burst, nUpd, nExt>>
vars == <<fileVars, storeVars, pc, loc, watchVars, now, histVars>>

NoTimer == [st |-> "none", deadline |-> 0, origin |-> "none"]
NoAcc == [village |-> "", id |-> NaN, month |-> "", val |-> 0, k |-> 0, by |-> {}]
NoBurst == [len |-> 0, fires |-> 0, quiet |-> 0]
NoBilling == [v \in Villages |-> NoFile]

Idle == [op |-> "none", id |-> NaN, month |-> "", value |-> NaN, inc |-> FALSE,
         village |-> "", newc |-> NoFile, res |-> "none",
         pre |-> [df |-> EmptyDF, months |-> <<>>], qdf |-> EmptyDF,
         pre_billing |-> NoBilling, dirty |-> FALSE, origin |-> "none",
         yr |-> <<>>, out |-> <<>>]

\* The billing directory: the village files and the staged file.
Dir == [n \in Villages \cup {TmpName} |-> IF n = TmpName THEN tmp ELSE billing[n]]

\* path.glob("*.csv"): the files that exist, in directory order.
Glob ==
    SelectSeq2(order, [i \in 1..Len(order) |-> billing[order[i]].st # "missing"])
        \o (IF tmp.st # "missing" THEN <<TmpName>> ELSE <<>>)

\* _load_data run from start to end on given files: what the constructor
\* (data_manager.py 28-36) leaves in df, month_columns and billing_dfs.
LoadAll(m, dir, listing) ==
    LET mdf  == load_master_data(m)
        bdfs == load_billing_data(dir, listing)
    IN  IF ~mdf.ok
        THEN [ok |-> FALSE, df |-> EmptyDF, months |-> <<>>, bdfs |-> <<>>]
        ELSE IF \E i \in 1..Len(bdfs) : ~bdfs[i].bdf.hasID
        THEN [ok |-> FALSE, df |-> EmptyDF, months |-> <<>>, bdfs |-> bdfs]
        ELSE [ok |-> TRUE, df |-> MergedDF(mdf.rows, bdfs),
              months |-> IF CombinedRows(bdfs) = <<>> THEN <<>>
                         ELSE get_month_columns(MergedDF(mdf.rows, bdfs).cols),
              bdfs |-> bdfs]

\* --------------------------------------------------------- the store lock
\* (variant) _sync_locked_call without the lock: every thread enters at once.
NoLock(p) == TRUE

\* (variant) a lock that a second request thread may enter while a first
\* one holds it.
CanAcquireShared(p) == lock = NoOwner \/ lock \in Callers

\* `with self.lock` of _sync_locked_call (an RLock) can be entered by p.
CanAcquire(p) == lock = NoOwner \/ lock = p

Release(p) == lock' = IF lock = p THEN NoOwner ELSE lock

Set(p, rec) == loc' = [loc EXCEPT ![p] = rec]
Goto(p, label) == pc' = [pc EXCEPT ![p] = label]

\* ------------------------------------------------------------- _load_data
\* (variant) _update_payment_sync returning what its _load_data returned.
LoadDoneChecked(p, result) ==
    IF loc[p].op = "update" /\ result = "true"
    THEN /\ Goto(p, "u_resume")
         /\ loc' = loc
    ELSE /\ Goto(p, IF loc[p].op = "update" THEN "u_ret" ELSE "r_ret")
         /\ Set(p, [loc[p] EXCEPT !.res = result])

\* Where _load_data returns to: reload_data_sync hands the result to its
\* caller, _update_payment_sync (line 248) drops it and goes on.
LoadDone(p, result) ==
    IF loc[p].op = "update"
    THEN /\ Goto(p, "u_resume")
         /\ loc' = loc
    ELSE /\ Goto(p, "r_ret")
         /\ Set(p, [loc[p] EXCEPT !.res = result])

\* reload_data / reload_data_sync / load_data_sync called by a request handler
StartReload(p) ==
    /\ pc[p] = "idle"
    /\ CanAcquire(p)
    /\ lock' = p
    /\ Goto(p, "l_files")
    /\ Set(p, [Idle EXCEPT !.op = "reload", !.pre = [df |-> df, months |-> month_columns]])
    /\ UNCHANGED <<fileVars, df, month_columns, billing_dfs, file_watcher, watchVars, now,
                   committed, acc, burst, nUpd, nExt>>

\* the reload callback of a fired timer enters load_data_sync
CallbackLock(t) ==
    /\ pc[t] = "r_lock"
    /\ CanAcquire(t)
    /\ lock' = t
    /\ Goto(t, "l_files")
    /\ Set(t, [loc[t] EXCEPT !.pre = [df |-> df, months |-> month_columns], !.dirty = FALSE])
    /\ UNCHANGED <<fileVars, df, month_columns, billing_dfs, file_watcher, watchVars, now, histVars>>

\* (variant) _load_data clearing self.df before it reads the files: a failed
\* load leaves DataFrame().
LoadFilesReset(p) ==
    /\ pc[p] = "l_files"
    /\ LET mdf  == load_master_data(master)
           bdfs == load_billing_data(Dir, Glob)
       IN  IF ~mdf.ok
           THEN /\ LoadDone(p, "false")
                /\ billing_dfs' = billing_dfs
                /\ df' = EmptyDF
           ELSE IF \E i \in 1..Len(bdfs) : ~bdfs[i].bdf.hasID
           THEN /\ LoadDone(p, "false")
                /\ billing_dfs' = bdfs
                /\ df' = EmptyDF
           ELSE /\ billing_dfs' = bdfs
                /\ df' = MergedDF(mdf.rows, bdfs)
                /\ Goto(p, "l_months")
                /\ loc' = loc
    /\ UNCHANGED <<fileVars, month_columns, lock, file_watcher, watchVars, now, histVars>>

\* data_manager.py 45-62 and 65: the master roster and the billing files
\* are read, self.billing_dfs and self.df are assigned.  An unreadable
\* roster returns False at line 48; a billing frame without ID column
\* raises KeyError at line 55, which line 70 turns into False.
LoadFiles(p) ==
    /\ pc[p] = "l_files"
    /\ LET mdf  == load_master_data(master)
           bdfs == load_billing_data(Dir, Glob)
       IN  IF ~mdf.ok
           THEN /\ LoadDone(p, "false")
                /\ UNCHANGED <<billing_dfs, df>>
           ELSE IF \E i \in 1..Len(bdfs) : ~bdfs[i].bdf.hasID
           THEN /\ LoadDone(p, "false")
                /\ billing_dfs' = bdfs
                /\ df' = df
           ELSE /\ billing_dfs' = bdfs
                /\ df' = MergedDF(mdf.rows, bdfs)
                /\ Goto(p, "l_months")
                /\ loc' = loc
    /\ UNCHANGED <<fileVars, month_columns, lock, file_watcher, watchVars, now, histVars>>

\* (variant) line 63 extending self.month_columns instead of assigning it.
LoadMonthsAppend(p) ==
    /\ pc[p] = "l_months"
    /\ month_columns' = month_columns
                           \o (IF df.kind = "merged" THEN get_month_columns(df.cols) ELSE <<>>)
    /\ committed' = [df |-> df, months |-> month_columns']
    /\ LoadDone(p, "true")
    /\ UNCHANGED <<fileVars, df, billing_dfs, lock, file_watcher, watchVars, now,
                   acc, burst, nUpd, nExt>>

\* data_manager.py 63 and 66, then return True
LoadMonths(p) ==
    /\ pc[p] = "l_months"
    /\ month_columns' = IF df.kind = "merged" THEN get_month_columns(df.cols) ELSE <<>>
    /\ committed' = [df |-> df, months |-> month_columns']
    /\ LoadDone(p, "true")
    /\ UNCHANGED <<fileVars, df, billing_dfs, lock, file_watcher, watchVars, now,
                   acc, burst, nUpd, nExt>>

\* reload_data_sync returns: _sync_locked_call leaves `with self.lock`
ReloadReturn(p) ==
    /\ pc[p] = "r_ret"
    /\ Release(p)
    /\ Goto(p, "idle")
    /\ Set(p, Idle)
    /\ UNCHANGED <<fileVars, df, month_columns, billing_dfs, file_watcher, watchVars, now, histVars>>

\* A handler that calls reload_data() twice in a row: the first call
\* returns, its snapshot and result are what the handler has seen ...
ReloadAgain(p) ==
    /\ pc[p] = "r_ret" /\ loc[p].op = "reload" /\ loc[p].out = <<>>
    /\ Release(p)
    /\ Goto(p, "r_again")
    /\ Set(p, [loc[p] EXCEPT !.out = <<[df |-> df, months |-> month_columns,
                                        res |-> loc[p].res, dirty |-> loc[p].dirty]>>,
                             !.dirty = FALSE])
    /\ UNCHANGED <<fileVars, df, month_columns, billing_dfs, file_watcher, watchVars, now, histVars>>

\* ... and the second call enters _sync_locked_call.
SecondReload(p) ==
    /\ pc[p] = "r_again"
    /\ CanAcquire(p)
    /\ lock' = p
    /\ Goto(p, "l_files")
    /\ Set(p, [loc[p] EXCEPT !.pre = [df |-> df, months |-> month_columns]])
    /\ UNCHANGED <<fileVars, df, month_columns, billing_dfs, file_watcher, watchVars, now, histVars>>

\* ---------------------------------------------------------------- queries
\* A read-only operation (get_payment_status, get_stats, ...) under
\* _sync_locked_call: it reads self.df ...
StartQuery(p) ==
    /\ pc[p] = "idle"
    /\ CanAcquire(p)
    /\ lock' = p
    /\ Goto(p, "q_months")
    /\ Set(p, [Idle EXCEPT !.op = "query", !.qdf = df])
    /\ UNCHANGED <<fileVars, df, month_columns, billing_dfs, file_watcher, watchVars, now, histVars>>

\* ... and then self.month_columns, and returns.
QueryMonths(p) ==
    /\ pc[p] = "q_months"
    /\ Release(p)
    /\ Goto(p, "idle")
    /\ Set(p, Idle)
    /\ UNCHANGED <<fileVars, df, month_columns, billing_dfs, file_watcher, watchVars, now, histVars>>

\* ------------------------------------------------------------ month lists
\* data_loader.py 38-73
is_paid(value) ==
    IF value = NaN THEN FALSE
    ELSE LET val_str == strip(value)
             digits  == KeepDigits(val_str)
         IN  IF val_str = <<>> \/ val_str = <<"-">> THEN FALSE
             ELSE IF digits # <<>> THEN ToInt(digits) # 0
             ELSE TRUE

\* self.df.columns
Columns(d) ==
    IF d.kind = "none" THEN <<>>
    ELSE IF d.kind = "master" THEN <<"ID", "Nama", "Desa">>
    ELSE <<"ID", "Nama", "Desa", "Nominal">> \o d.cols \o <<"Nominal_Clean", "Source_Village">>

\* the column of d whose name has the characters name (a tuple); "" if none
ColumnNamed(d, name) ==
    IF \E c \in Range(Columns(d)) : Chars(c) = name
    THEN CHOOSE c \in Range(Columns(d)) : Chars(c) = name ELSE ""

\* row[c] as the text pandas holds
Value(row, c) ==
    IF c = "ID" THEN row.ID
    ELSE IF c = "Nama" THEN Chars(row.Nama)
    ELSE IF c = "Desa" THEN Chars(row.Desa)
    ELSE IF c = "Nominal" THEN row.Nominal
    ELSE IF c = "Nominal_Clean" THEN Str(row.Nominal_Clean)
    ELSE IF c = "Source_Village" THEN Chars(row.src)
    ELSE row.cells[c]

\* data_manager.py 198-201: one entry of a list result
ListEntry(row) == [No |-> row.ID, Nama |-> row.Nama, key |-> Chars(row.Nama), Value |-> NaN]

format_list_results(rows) == [i \in 1..Len(rows) |-> ListEntry(rows[i])]

\* data_manager.py 179-184
get_unpaid_by_month_sync(d, month) ==
    LET m_norm == strip(upper(Chars(month)))
        col    == ColumnNamed(d, m_norm)
        mask   == [i \in 1..Len(d.rows) |->
                     /\ \/ Value(d.rows[i], col) = NaN
                        \/ strip(Value(d.rows[i], col)) = <<>>
                     /\ d.rows[i].ID # NaN]
    IN  IF col = "" THEN <<>>
        ELSE sorted(format_list_results(SelectSeq2(d.rows, mask)))

\* data_manager.py 189-196
get_paid_by_month_sync(d, month) ==
    LET m_norm == strip(upper(Chars(month)))
        col    == ColumnNamed(d, m_norm)
        mask   == [i \in 1..Len(d.rows) |->
                     is_paid(Value(d.rows[i], col)) /\ d.rows[i].ID # NaN]
        paid   == SelectSeq2(d.rows, mask)
    IN  IF col = "" THEN <<>>
        ELSE sorted([i \in 1..Len(paid) |->
                       [ListEntry(paid[i]) EXCEPT !.Value = Value(paid[i], col)]])

\* _sync_locked_call(self._get_unpaid_by_month_sync, month)
get_unpaid_by_month(p, month) ==
    /\ pc[p] = "idle"
    /\ CanAcquire(p)
    /\ lock' = p
    /\ Goto(p, "q_return")
    /\ Set(p, [Idle EXCEPT !.op = "unpaid", !.month = month, !.qdf = df,
                           !.out = get_unpaid_by_month_sync(df, month)])
    /\ UNCHANGED <<fileVars, df, month_columns, billing_dfs, file_watcher, watchVars, now, histVars>>

\* _sync_locked_call(self._get_paid_by_month_sync, month)
get_paid_by_month(p, month) ==
    /\ pc[p] = "idle"
    /\ CanAcquire(p)
    /\ lock' = p
    /\ Goto(p, "q_return")
    /\ Set(p, [Idle EXCEPT !.op = "paid", !.month = month, !.qdf = df,
                           !.out = get_paid_by_month_sync(df, month)])
    /\ UNCHANGED <<fileVars, df, month_columns, billing_dfs, file_watcher, watchVars, now, histVars>>

\* ------------------------------------------------------------ resolve_month
\* data_manager.py 106-113
month_map ==
    << <<"jan", "JAN">>, <<"januari", "JAN">>, <<"feb", "FEB">>, <<"februari", "FEB">>,
       <<"mar", "MAR">>, <<"maret", "MAR">>, <<"apr", "APR">>, <<"april", "APR">>,
       <<"mei", "MEI">>, <<"may", "MEI">>, <<"jun", "JUN">>, <<"juni", "JUN">>,
       <<"jul", "JUL">>, <<"juli", "JUL">>, <<"agu", "AGU">>, <<"aug", "AUG">>,
       <<"agustus", "AGU">>, <<"sep", "SEP">>, <<"september", "SEP">>, <<"okt", "OKT">>,
       <<"oct", "OKT">>, <<"oktober", "OKT">>, <<"nov", "NOV">>, <<"november", "NOV">>,
       <<"des", "DES">>, <<"dec", "DES">>, <<"desember", "DES">> >>

None == ""

\* month_map.get(key) for the characters key; None if absent
MapGet(key) ==
    IF \E i \in 1..Len(month_map) : Chars(month_map[i][1]) = key
    THEN month_map[CHOOSE i \in 1..Len(month_map) : Chars(month_map[i][1]) = key][2]
    ELSE None

\* data_manager.py 119-123
variations(target_abbr) ==
    <<target_abbr>>
        \o (IF target_abbr = "AGU" THEN <<"AUG">> ELSE <<>>)
        \o (IF target_abbr = "AUG" THEN <<"AGU">> ELSE <<>>)
        \o (IF target_abbr = "MEI" THEN <<"MAY">> ELSE <<>>)
        \o (IF target_abbr = "MAY" THEN <<"MEI">> ELSE <<>>)

\* the sort key of data_manager.py 132
YearKey(c) == IF HasApostrophe(c) THEN split(Chars(c))[2] ELSE <<"0", "0">>

\* data_manager.py 98-134; current_yr is the last two digits of the year
\* datetime.now() gives.
resolve_month_sync(available, input_name, current_yr) ==
    LET input_lower == lower(strip(Chars(input_name)))
        exact       == SelectSeq(available, LAMBDA col : lower(Chars(col)) = input_lower)
        target_abbr == MapGet(input_lower)
        vs          == variations(target_abbr)
        thisyear    == Flatten([i \in 1..Len(vs) |->
                          SelectSeq(available, LAMBDA col :
                              upper(Chars(col)) = Chars(vs[i]) \o <<"'">> \o current_yr)])
        matches     == SelectSeq(available, LAMBDA c :
                          \E i \in 1..Len(vs) : upper(split(Chars(c))[1]) = Chars(vs[i]))
        ordered     == sorted([i \in 1..Len(matches) |->
                                 [col |-> matches[i], key |-> YearKey(matches[i])]])
    IN  IF available = <<>> THEN None
        ELSE IF exact # <<>> THEN exact[1]
        ELSE IF target_abbr = None THEN None
        ELSE IF thisyear # <<>> THEN thisyear[1]
        ELSE IF matches # <<>> THEN ordered[Len(ordered)].col
        ELSE None

\* _sync_locked_call(self._resolve_month_sync, input_name)
resolve_month(p, input_name, current_yr) ==
    /\ pc[p] = "idle"
    /\ CanAcquire(p)
    /\ lock' = p
    /\ Goto(p, "q_return")
    /\ Set(p, [Idle EXCEPT !.op = "resolve", !.month = input_name, !.yr = current_yr,
                           !.qdf = df, !.pre = [df |-> df, months |-> month_columns],
                           !.out = resolve_month_sync(month_columns, input_name, current_yr)])
    /\ UNCHANGED <<fileVars, df, month_columns, billing_dfs, file_watcher, watchVars, now, histVars>>

\* ------------------------------------------------------- get_payment_status
\* data_loader.py 205-216
normalize_name(name) == lower(strip(Chars(name)))

\* str.contains(term, regex=False)
Contains(s, term) == \E i \in 1..(Len(s) - Len(term) + 1) : SubSeq(s, i, i + Len(term) - 1) = term

\* The sets get_close_matches(term, names, n=5, cutoff=0.4) may return: the
\* similarity ratio of difflib is not computed, any choice of at most n of
\* the names stands for its result.
CloseMatchLimit == 5
CloseMatches(names) == {c \in SUBSET Range(names) : Cardinality(c) <= CloseMatchLimit}

\* data_manager.py 139-150: the rows of d the search returns, close being
\* the result of get_close_matches.
search_by_name_sync(d, name, close) ==
    LET term  == normalize_name(name)
        found == SelectSeq(d.rows, LAMBDA r : Contains(lower(Chars(r.Nama)), term))
    IN  IF d.rows = <<>> \/ term = <<>> THEN <<>>
        ELSE IF found # <<>> THEN found
        ELSE SelectSeq(d.rows, LAMBDA r : lower(Chars(r.Nama)) \in close)

\* data_manager.py 284-294, the keys No and Nama of each dict
format_results(rows) == [i \in 1..Len(rows) |-> [No |-> rows[i].ID, Nama |-> rows[i].Nama]]

\* _sync_locked_call(self._search_by_name_sync, name)
search_by_name(p, name) ==
    /\ pc[p] = "idle"
    /\ CanAcquire(p)
    /\ lock' = p
    /\ Goto(p, "q_return")
    /\ \E close \in CloseMatches([i \in 1..Len(df.rows) |-> normalize_name(df.rows[i].Nama)]) :
          Set(p, [Idle EXCEPT !.op = "search", !.month = name, !.qdf = df,
                              !.out = format_results(search_by_name_sync(df, name, close))])
    /\ UNCHANGED <<fileVars, df, month_columns, billing_dfs, file_watcher, watchVars, now, histVars>>

\* (variant) every paid month below the required amount is partial, a month
\* paid with a text without digits included.
IsPartialBelow(amount, nominal) == amount < nominal

\* data_manager.py 171
IsPartial(amount, nominal) == 0 < amount /\ amount < nominal

NoStatus == [found |-> FALSE]

\* (variant) a status loop whose else branch takes a month only if its cell
\* is blank, the test of get_unpaid_by_month.
get_payment_status_blank(d, months, name, close) ==
    LET results == search_by_name_sync(d, name, close)
        row     == results[1]
        paid(m)   == is_paid(Value(row, m))
        blank(m)  == Value(row, m) = NaN \/ strip(Value(row, m)) = <<>>
        amount(m) == IF paid(m) THEN parse_nominal(Value(row, m)) ELSE 0
        Nominal == IF d.kind = "merged" THEN row.Nominal_Clean ELSE 0
    IN  IF results = <<>> THEN NoStatus
        ELSE [found |-> TRUE, row |-> row, No |-> row.ID, Nama |-> row.Nama,
              Nominal |-> Nominal,
              paid_months    |-> SelectSeq(months, LAMBDA m : paid(m)),
              unpaid_months  |-> SelectSeq(months, LAMBDA m : ~paid(m) /\ blank(m)),
              partial_months |-> SelectSeq(months, LAMBDA m :
                                    paid(m) /\ IsPartial(amount(m), Nominal)),
              payment_details |-> [i \in 1..Len(months) |->
                                     [paid |-> paid(months[i]), amount |-> amount(months[i])]]]

\* data_manager.py 155-174
get_payment_status_sync(d, months, name, close) ==
    LET results == search_by_name_sync(d, name, close)
        row     == results[1]
        paid(m)   == is_paid(Value(row, m))
        amount(m) == IF paid(m) THEN parse_nominal(Value(row, m)) ELSE 0
        Nominal == IF d.kind = "merged" THEN row.Nominal_Clean ELSE 0
    IN  IF results = <<>> THEN NoStatus
        ELSE [found |-> TRUE, row |-> row, No |-> row.ID, Nama |-> row.Nama,
              Nominal |-> Nominal,
              paid_months    |-> SelectSeq(months, LAMBDA m : paid(m)),
              unpaid_months  |-> SelectSeq(months, LAMBDA m : ~paid(m)),
              partial_months |-> SelectSeq(months, LAMBDA m :
                                    paid(m) /\ IsPartial(amount(m), Nominal)),
              payment_details |-> [i \in 1..Len(months) |->
                                     [paid |-> paid(months[i]), amount |-> amount(months[i])]]]

\* _sync_locked_call(self._get_payment_status_sync, name)
get_payment_status(p, name) ==
    /\ pc[p] = "idle"
    /\ CanAcquire(p)
    /\ lock' = p
    /\ Goto(p, "q_return")
    /\ \E close \in CloseMatches([i \in 1..Len(df.rows) |-> normalize_name(df.rows[i].Nama)]) :
          Set(p, [Idle EXCEPT !.op = "status", !.month = name, !.qdf = df,
                              !.pre = [df |-> df, months |-> month_columns],
                              !.out = get_payment_status_sync(df, month_columns, name, close)])
    /\ UNCHANGED <<fileVars, df, month_columns, billing_dfs, file_watcher, watchVars, now, histVars>>

\* The locked call returns: the lock is released, the handler holds the result.
QueryReturn(p) ==
    /\ pc[p] = "q_return"
    /\ Release(p)
    /\ Goto(p, "q_result")
    /\ UNCHANGED <<fileVars, df, month_columns, billing_dfs, file_watcher, loc, watchVars, now,
                   histVars>>

\* The handler has sent its reply.
Reply(p) ==
    /\ pc[p] = "q_result"
    /\ Goto(p, "idle")
    /\ Set(p, Idle)
    /\ UNCHANGED <<fileVars, storeVars, watchVars, now, histVars>>

\* ---------------------------------------------------------- update_payment
\* (variant) the increment branch lost: the amount replaces the cell.
NewCellSet(old, value, is_increment) == Str(parse_nominal(value))

\* data_manager.py 221-224: the text stored in the target cell.
NewCell(old, value, is_increment) ==
    IF is_increment THEN Str(parse_nominal(old) + parse_nominal(value))
    ELSE Str(parse_nominal(value))

\* The rows of self.df with the given id (line 208).
DfHits(id_str) == SelectSeq2(df.rows, [i \in 1..Len(df.rows) |-> strip(df.rows[i].ID) = id_str])

\* (variant) the village of the roster row, whatever file the billing row
\* came from.
VillageOfRoster(resident) == resident.Desa

\* Line 211: Source_Village of the resident, Desa where the frame has no
\* such column.  Village names are lower case and unpadded in the model.
VillageOf(resident) == IF df.kind = "merged" THEN resident.src ELSE resident.Desa

\* Line 220: the index of the first row of v_df with the id, 0 if none.
FirstRow(v_df, id_str) ==
    LET idxs == {i \in 1..Len(v_df.rows) : strip(v_df.rows[i].ID) = id_str}
    IN  IF idxs = {} THEN 0 ELSE CHOOSE i \in idxs : \A j \in idxs : i <= j

\* (variant) the table taken from self.billing_dfs, the frames of the last
\* reload, instead of the file.
FromSnapshot(village) ==
    LET hits == {i \in 1..Len(billing_dfs) : billing_dfs[i].village = village}
        bdf  == billing_dfs[CHOOSE i \in hits : TRUE].bdf
    IN  IF hits = {} THEN billing[village]
        ELSE [billing[village] EXCEPT
                !.cols = bdf.cols,
                !.rows = [i \in 1..Len(bdf.rows) |->
                            [ID |-> bdf.rows[i].ID, Nominal |-> bdf.rows[i].Nominal,
                             cells |-> bdf.rows[i].cells]]]

\* Lines 212 and 216: v_file, the billing file of the village as it is on
\* disk when the call runs.
OnDisk(village) == billing[village]

\* Lines 216-239: the content update_payment stages for file content c, or
\* NoFile where it returns False or raises before staging.  The title rows
\* (preamble and header row) are copied, to_csv writes the header again and
\* the rows load_csv kept.
Staged(c, id_str, month_col, value, is_increment) ==
    LET v_df == load_csv(c)
        idx  == FirstRow(v_df, id_str)
        known == month_col \in Range(v_df.cols)
        k    == IndexOf(v_df.cols, month_col)
    IN  IF ~v_df.ok \/ ~v_df.hasID THEN NoFile
        ELSE IF idx = 0 THEN NoFile
        ELSE IF is_increment /\ ~known THEN NoFile
        ELSE [st |-> "ok", pre |-> c.pre, idcol |-> c.idcol, cols |-> c.cols,
              hdr2 |-> TRUE,
              extra |-> IF known THEN <<>> ELSE <<month_col>>,
              rows |-> [i \in 1..Len(v_df.rows) |->
                          [ID |-> v_df.rows[i].ID, Nominal |-> v_df.rows[i].Nominal,
                           cells |->
                             IF known
                             THEN IF i = idx
                                  THEN [v_df.rows[i].cells EXCEPT
                                          ![k] = NewCell(@, value, is_increment)]
                                  ELSE v_df.rows[i].cells
                             ELSE Append(v_df.rows[i].cells,
                                         IF i = idx THEN NewCell(NaN, value, FALSE) ELSE NaN)]]]

\* update_payment entered under _sync_locked_call: lines 207-230.
StartUpdate(p, id_warga, month_col, value, is_increment) ==
    /\ pc[p] = "idle"
    /\ nUpd < MaxUpd
    /\ CanAcquire(p)
    /\ lock' = p
    /\ nUpd' = nUpd + 1
    /\ LET id_str == strip(id_warga)
           hits == DfHits(id_str)
           village == VillageOf(hits[1])
           args == [Idle EXCEPT !.op = "update", !.id = id_str, !.month = month_col,
                                !.value = value, !.inc = is_increment,
                                !.pre = [df |-> df, months |-> month_columns],
                                !.pre_billing = billing]
       IN  IF df.kind = "none"
           THEN \* self.df['ID'] raises KeyError outside the try block
                /\ Goto(p, "u_ret")
                /\ Set(p, [args EXCEPT !.res = "raise"])
           ELSE IF hits = <<>>
           THEN /\ Goto(p, "u_ret")
                /\ Set(p, [args EXCEPT !.res = "false"])
           ELSE IF village \notin Villages \/ billing[village].st = "missing"
           THEN /\ Goto(p, "u_ret")
                /\ Set(p, [args EXCEPT !.res = "false", !.village = village])
           ELSE LET newc == Staged(OnDisk(village), id_str, month_col, value, is_increment)
                IN  IF newc = NoFile
                    THEN /\ Goto(p, "u_ret")
                         /\ Set(p, [args EXCEPT !.res = "false", !.village = village])
                    ELSE /\ Goto(p, "u_stage")
                         /\ Set(p, [args EXCEPT !.village = village, !.newc = newc])
    /\ UNCHANGED <<fileVars, df, month_columns, billing_dfs, file_watcher, watchVars, now,
                   committed, acc, burst, nExt>>

\* A watchdog event: path is src_path of a modified event and dest_path of
\* a moved event.  The program's own writes and the edits of the billing
\* files are events of a csv file.
Event(kind, origin) ==
    [kind |-> kind, is_directory |-> FALSE, path |-> "a.csv", origin |-> origin]
\* The observer queues an event only while it runs (the store is linked to it).
Emit(ev) ==
    evq' = IF file_watcher /\ hpc.st \in {"idle", "sched"} /\ Len(evq) < MaxQ
           THEN Append(evq, ev) ELSE evq

\* (variant) the title rows written to the billing file itself, opened 'w'.
StageTitleInPlace(p) ==
    /\ pc[p] = "u_stage"
    /\ billing' = [billing EXCEPT ![loc[p].village] =
                     [loc[p].newc EXCEPT !.st = "partial", !.hdr2 = FALSE, !.extra = <<>>,
                                         !.rows = <<>>]]
    /\ Goto(p, "u_table")
    /\ UNCHANGED <<master, tmp, order, storeVars, loc, watchVars, now, histVars>>

\* Lines 232-235: mkstemp, then the title rows are written to the new file.
StageTitle(p) ==
    /\ pc[p] = "u_stage"
    /\ tmp' = [loc[p].newc EXCEPT !.st = "partial", !.hdr2 = FALSE, !.extra = <<>>, !.rows = <<>>]
    /\ Goto(p, "u_table")
    /\ UNCHANGED <<master, billing, order, storeVars, loc, watchVars, now, histVars>>

\* (variant) a failed write that leaves the new file where mkstemp put it.
StageTableKeep(p, ok) ==
    /\ pc[p] = "u_table"
    /\ IF ok
       THEN /\ tmp' = loc[p].newc
            /\ Emit(Event("modified", "selftmp"))
            /\ Goto(p, "u_pause")
            /\ loc' = loc
       ELSE /\ UNCHANGED <<tmp, evq>>
            /\ Goto(p, "u_ret")
            /\ Set(p, [loc[p] EXCEPT !.res = "false"])
    /\ UNCHANGED <<master, billing, order, storeVars, paused, timer, orphans, last_call,
                   delay, hpc, now, histVars>>

\* Lines 236-239: to_csv writes the table and the file is closed; or the
\* write raises, and lines 245-247 remove the file and re-raise.
StageTable(p, ok) ==
    /\ pc[p] = "u_table"
    /\ IF ok
       THEN /\ tmp' = loc[p].newc
            /\ Emit(Event("modified", "selftmp"))
            /\ Goto(p, "u_pause")
            /\ loc' = loc
       ELSE /\ tmp' = NoFile
            /\ evq' = evq
            /\ Goto(p, "u_ret")
            /\ Set(p, [loc[p] EXCEPT !.res = "false"])
    /\ UNCHANGED <<master, billing, order, storeVars, paused, timer, orphans, last_call,
                   delay, hpc, now, histVars>>

\* -------------------------------------------------- DebouncedFileHandler
\* (variant) a cancel() that does not stop a timer that waits.
Uncancelled(tm) == tm

\* threading.Timer.cancel(): a timer that still waits will not call back;
\* on a timer that fired or was cancelled it changes nothing.
Cancel(tm) == IF tm.st = "waiting" THEN [tm EXCEPT !.st = "cancelled"] ELSE tm

\* A timer that loses its last reference can still fire if it is waiting.
Dropped(tm) == IF tm.st = "waiting" THEN {tm} ELSE {}

\* (variant) a pause() that waits for a callback that has started to end,
\* as a join of the timer's thread would.
pauseJoined ==
    /\ \A t \in CbThreads : pc[t] = "idle"
    /\ paused' = TRUE
    /\ orphans' = orphans \cup Dropped(Cancel(timer))
    /\ timer' = NoTimer
    /\ burst' = NoBurst

\* file_watcher.py 96-103, under self.lock
pause ==
    /\ paused' = TRUE
    /\ orphans' = orphans \cup Dropped(Cancel(timer))
    /\ timer' = NoTimer
    /\ burst' = NoBurst

\* file_watcher.py 105-109, under self.lock
resume == paused' = FALSE

\* (variant) update_payment going on to the swap without pausing the watcher.
PauseSkipped(p) ==
    /\ pc[p] = "u_pause"
    /\ Goto(p, "u_replace")
    /\ UNCHANGED <<fileVars, storeVars, loc, watchVars, now, histVars>>

\* Line 242: the watcher is paused before the swap, if one is linked.
PauseWatcher(p) ==
    /\ pc[p] = "u_pause"
    /\ IF file_watcher THEN pause ELSE UNCHANGED <<paused, timer, orphans, burst>>
    /\ Goto(p, "u_replace")
    /\ UNCHANGED <<fileVars, storeVars, loc, last_call, delay, hpc, evq, now,
                   committed, acc, nUpd, nExt>>

\* The expected amount of the cell an update writes: the amounts given so
\* far added to the amount the cell first held, or the amount set; k counts
\* the increments since the cell was last set or first seen, by the threads
\* that made them.
Account(p) ==
    LET u == loc[p]
        c == u.pre_billing[u.village]
        v_df == load_csv(c)
        old == v_df.rows[FirstRow(v_df, u.id)].cells[IndexOf(v_df.cols, u.month)]
        same == acc.village = u.village /\ acc.id = u.id /\ acc.month = u.month
    IN  IF u.month \notin Range(c.cols) THEN NoAcc
        ELSE [village |-> u.village, id |-> u.id, month |-> u.month,
              val |-> IF ~u.inc THEN parse_nominal(u.value)
                      ELSE (IF same THEN acc.val ELSE parse_nominal(old))
                               + parse_nominal(u.value),
              k |-> IF ~u.inc THEN 0 ELSE IF same THEN acc.k + 1 ELSE 1,
              by |-> IF ~u.inc THEN {} ELSE IF same THEN acc.by \cup {p} ELSE {p}]

\* (variant) a failed os.replace followed by _load_data all the same.
ReplaceThenLoad(p, ok) ==
    /\ pc[p] = "u_replace"
    /\ tmp' = NoFile
    /\ IF ok
       THEN /\ billing' = [billing EXCEPT ![loc[p].village] = tmp]
            /\ order' \in Perms(Villages)
            /\ Emit(Event("moved", "selfmove"))
            /\ acc' = IF loc[p].dirty THEN NoAcc ELSE Account(p)
       ELSE UNCHANGED <<billing, order, evq, acc>>
    /\ Goto(p, "l_files")
    /\ UNCHANGED <<master, storeVars, loc, paused, timer, orphans, last_call, delay, hpc, now,
                   committed, burst, nUpd, nExt>>

\* Line 244: os.replace renames the staged file over the billing file; or
\* it raises, and lines 245-247 remove the staged file and re-raise.
Replace(p, ok) ==
    /\ pc[p] = "u_replace"
    /\ IF ok
       THEN /\ billing' = [billing EXCEPT ![loc[p].village] = tmp]
            /\ tmp' = NoFile
            /\ order' \in Perms(Villages)
            /\ Emit(Event("moved", "selfmove"))
            /\ acc' = IF loc[p].dirty THEN NoAcc ELSE Account(p)
            /\ Goto(p, "l_files")
            /\ loc' = loc
       ELSE /\ tmp' = NoFile
            /\ UNCHANGED <<billing, order, evq, acc>>
            /\ Goto(p, "u_ret")
            /\ Set(p, [loc[p] EXCEPT !.res = "false"])
    /\ UNCHANGED <<master, storeVars, paused, timer, orphans, last_call, delay, hpc, now,
                   committed, burst, nUpd, nExt>>

\* Lines 250-253: the watcher is resumed, update_payment returns True.
ResumeWatcher(p) ==
    /\ pc[p] = "u_resume"
    /\ IF file_watcher THEN resume ELSE UNCHANGED paused
    /\ Goto(p, "u_ret")
    /\ Set(p, [loc[p] EXCEPT !.res = "true"])
    /\ UNCHANGED <<fileVars, storeVars, timer, orphans, last_call, delay, hpc, evq, now, histVars>>

\* update_payment returns: _sync_locked_call leaves `with self.lock`
UpdateReturn(p) ==
    /\ pc[p] = "u_ret"
    /\ Release(p)
    /\ Goto(p, "idle")
    /\ Set(p, Idle)
    /\ UNCHANGED <<fileVars, df, month_columns, billing_dfs, file_watcher, watchVars, now, histVars>>

\* str.endswith
endswith(s, suffix) ==
    Len(s) >= Len(suffix) /\ SubSeq(s, Len(s) - Len(suffix) + 1, Len(s)) = suffix

\* (variant) on_modified / on_moved without the paused check.
AcceptedAlways(ev) == ~ev.is_directory /\ endswith(ev.path, ".csv")

\* (variant) on_modified / on_moved without the test of the path.
AcceptedAnyPath(ev) == ~paused

\* Lines 42-46 and 53-57: the event is not returned from and goes on to
\* _schedule_reload.
Accepted(ev) == ~paused /\ ~ev.is_directory /\ endswith(ev.path, ".csv")

\* on_modified / on_moved, lines 42-47 and 53-58: the paused flag is read
\* under self.lock, the lock is released, and a csv event goes on to
\* _schedule_reload.
Dispatch(kind) ==
    /\ hpc.st = "idle"
    /\ evq # <<>>
    /\ Head(evq).kind = kind
    /\ evq' = Tail(evq)
    /\ hpc' = IF Accepted(Head(evq))
              THEN [st |-> "sched", origin |-> Head(evq).origin]
              ELSE hpc
    /\ UNCHANGED <<fileVars, storeVars, pc, loc, paused, timer, orphans, last_call, delay,
                   now, histVars>>

on_modified == Dispatch("modified")
on_moved == Dispatch("moved")

\* (variant) _schedule_reload without cancel(): the old timer keeps running.
KeepRunning(tm) == tm

\* Lines 68-69: the timer self.timer referred to is cancelled.
Superseded(tm) == Cancel(tm)

\* Lines 72-73: the timer started for an event.
NewTimer(origin) == [st |-> "waiting", deadline |-> now + delay, origin |-> origin]

\* _schedule_reload, lines 64-75, under self.lock
schedule_reload ==
    /\ hpc.st \in {"sched", "sched_stop"}
    /\ timer' = NewTimer(hpc.origin)
    /\ orphans' = orphans \cup Dropped(Superseded(timer))
    /\ last_call' = now
    /\ burst' = IF timer.st = "waiting" /\ now - last_call < delay
                THEN [burst EXCEPT !.len = @ + 1]
                ELSE [len |-> 1, fires |-> 0, quiet |-> 0]
    /\ hpc' = [st |-> IF hpc.st = "sched" THEN "idle" ELSE "stopped", origin |-> "none"]
    /\ UNCHANGED <<fileVars, storeVars, pc, loc, paused, delay, evq, now,
                   committed, acc, nUpd, nExt>>

\* The started timers that have not been cancelled and have not fired.
LiveTimers == (IF timer.st = "waiting" THEN {timer} ELSE {}) \cup orphans

\* (variant) a timer that runs only at the very tick of its deadline.
ExpiredExactly(tm) == now = tm.deadline

\* threading.Timer.run: the interval has passed and the timer was not
\* cancelled; _execute_callback (lines 77-85) runs on the timer's thread t.
Expired(tm) == now >= tm.deadline

TimerFire(t) ==
    /\ pc[t] = "idle"
    /\ \E tm \in LiveTimers :
          /\ Expired(tm)
          /\ IF tm = timer /\ timer.st = "waiting"
             THEN timer' = [timer EXCEPT !.st = "fired"] /\ orphans' = orphans
             ELSE orphans' = orphans \ {tm} /\ timer' = timer
          /\ Set(t, [Idle EXCEPT !.op = "reload", !.origin = tm.origin])
    /\ Goto(t, "r_lock")
    /\ burst' = [burst EXCEPT !.fires = @ + 1, !.quiet = now - last_call]
    /\ UNCHANGED <<fileVars, storeVars, paused, last_call, delay, hpc, evq, now,
                   committed, acc, nUpd, nExt>>

\* CSVFileWatcher.pause() / resume() called from outside the store
WatcherPause ==
    /\ hpc.st # "off"
    /\ ~paused
    /\ pause
    /\ UNCHANGED <<fileVars, storeVars, pc, loc, last_call, delay, hpc, evq, now,
                   committed, acc, nUpd, nExt>>

WatcherResume ==
    /\ hpc.st # "off"
    /\ paused
    /\ resume
    /\ UNCHANGED <<fileVars, storeVars, pc, loc, timer, orphans, last_call, delay, hpc, evq,
                   now, histVars>>

\* ------------------------------------------------------------ start / stop
\* The observer thread hpc: "off" before start() (observer and event_handler
\* are None), "idle" or "sched" while it runs, "sched_stop" when it was told
\* to stop inside a handler, "stopped" once it has ended.
\* CSVFileWatcher.start(), lines 131-160, called by thread p: a new handler
\* and a new observer.
WatcherStart(p) ==
    /\ pc[p] = "idle"
    /\ hpc.st = "off"
    /\ hpc' = [st |-> "idle", origin |-> "none"]
    /\ paused' = FALSE /\ timer' = NoTimer /\ last_call' = 0
    /\ UNCHANGED <<fileVars, storeVars, pc, loc, orphans, delay, evq, now, histVars>>

\* What stop() can change, as the caller finds it.
WatcherState == [live |-> LiveTimers, hpc |-> hpc, evq |-> evq]

\* (variant) DebouncedFileHandler.stop() that forgets the timer without
\* cancelling it.
StopTimerForget(tm) == Dropped(tm)

\* file_watcher.py 91-94: the timers left running when stop() is done with tm.
StopTimer(tm) == Dropped(Cancel(tm))

\* CSVFileWatcher.stop() is called by thread p; lines 167-168 and 87-94:
\* event_handler.stop() under self.lock, if there is a handler.
stop(p) ==
    /\ pc[p] = "idle"
    /\ Goto(p, "s_observer")
    /\ Set(p, [Idle EXCEPT !.op = "stop", !.out = <<WatcherState>>])
    /\ IF hpc.st # "off"
       THEN timer' = NoTimer /\ orphans' = orphans \cup StopTimer(timer)
       ELSE UNCHANGED <<timer, orphans>>
    /\ UNCHANGED <<fileVars, storeVars, paused, last_call, delay, hpc, evq, now, histVars>>

\* Lines 170-171: observer.stop(), if there is an observer: no further
\* event is taken from the queue, a handler that runs is finished.
StopObserver(p) ==
    /\ pc[p] = "s_observer"
    /\ Goto(p, "s_join")
    /\ IF hpc.st \in {"idle", "sched"}
       THEN /\ hpc' = [hpc EXCEPT !.st = IF hpc.st = "idle" THEN "stopped" ELSE "sched_stop"]
            /\ evq' = <<>>
       ELSE UNCHANGED <<hpc, evq>>
    /\ UNCHANGED <<fileVars, storeVars, loc, paused, timer, orphans, last_call, delay, now,
                   histVars>>

\* Line 172 and the return: join(timeout=5) ends when the observer thread
\* has ended or when the timeout has passed.
StopReturn(p) ==
    /\ pc[p] = "s_join"
    /\ Goto(p, "idle")
    /\ Set(p, Idle)
    /\ UNCHANGED <<fileVars, storeVars, watchVars, now, histVars>>

Tick ==
    /\ now < MaxTime
    /\ now' = now + 1
    /\ UNCHANGED <<fileVars, storeVars, pc, loc, watchVars, histVars>>

\* ------------------------------------------------------------ environment
\* A process outside the program marks every operation in progress: what
\* the files hold is no longer what the operation read or wrote.
Disturbed == [p \in Procs |-> IF loc[p].op # "none" THEN [loc[p] EXCEPT !.dirty = TRUE] ELSE loc[p]]

\* Someone saves, creates or deletes the billing file of village v.
ExtEditBilling(v, c) ==
    /\ nExt < MaxExt
    /\ nExt' = nExt + 1
    /\ c # billing[v]
    /\ billing' = [billing EXCEPT ![v] = c]
    /\ order' \in IF (c.st = "missing") # (billing[v].st = "missing")
                  THEN Perms(Villages) ELSE {order}
    /\ Emit(Event("modified", "ext"))
    /\ loc' = Disturbed
    /\ acc' = IF acc.village = v THEN NoAcc ELSE acc
    /\ UNCHANGED <<master, tmp, storeVars, pc, paused, timer, orphans, last_call, delay, hpc,
                   now, committed, burst, nUpd>>

\* Someone saves the master roster.
ExtEditMaster(m) ==
    /\ nExt < MaxExt
    /\ nExt' = nExt + 1
    /\ m # master
    /\ master' = m
    /\ Emit(Event("modified", "ext"))
    /\ loc' = Disturbed
    /\ UNCHANGED <<billing, tmp, order, storeVars, pc, paused, timer, orphans, last_call,
                   delay, hpc, now, committed, acc, burst, nUpd>>

\* Someone saves a csv file again with the content it has: one more
\* modified event and nothing else.
Touch ==
    /\ nExt < MaxTouch
    /\ nExt' = nExt + 1
    /\ Emit(Event("modified", "ext"))
    /\ UNCHANGED <<fileVars, storeVars, pc, loc, paused, timer, orphans, last_call, delay, hpc,
                   now, committed, acc, burst, nUpd>>

\* Something else happens under the watched directory: a directory or a
\* file that is no csv file is modified or moved.  The event is taken only
\* while the observer runs and has room for it.
OtherEvent(kind, is_directory, path) ==
    /\ nExt < MaxTouch
    /\ nExt' = nExt + 1
    /\ file_watcher /\ hpc.st \in {"idle", "sched"} /\ Len(evq) < MaxQ
    /\ is_directory \/ ~endswith(path, ".csv")
    /\ evq' = Append(evq, [kind |-> kind, is_directory |-> is_directory, path |-> path,
                           origin |-> "other"])
    /\ UNCHANGED <<fileVars, storeVars, pc, loc, paused, timer, orphans, last_call, delay, hpc,
                   now, committed, acc, burst, nUpd>>

\* ---------------------------------------------------------- initial states
Row(id, nominal, cells) == [ID |-> id, Nominal |-> nominal, cells |-> cells]
Resident(id, nama, desa) == [ID |-> id, Nama |-> nama, Desa |-> desa]
Table(pre, idcol, cols, rows) ==
    [st |-> "ok", pre |-> pre, idcol |-> idcol, cols |-> cols, hdr2 |-> FALSE,
     extra |-> <<>>, rows |-> rows]

Id1 == <<"1">>
Id2 == <<"2">>
Id3 == <<"3">>

Master0 == [st |-> "ok", rows |-> <<Resident(Id1, "ani", "a"), Resident(Id2, "budi", "b")>>]
MasterBad == [st |-> "bad", rows |-> <<>>]

FileA == Table(<<"TAGIHAN A">>, "No", <<"JAN'26">>,
               <<Row(Id1, <<"5">>, <<NaN>>), Row(TOTAL, <<"5">>, <<NaN>>)>>)
FileA2 == Table(<<"TAGIHAN A">>, "No", <<"JAN'26">>,
                <<Row(Id1, <<"5">>, <<<<"3">>>>), Row(TOTAL, <<"5">>, <<<<"3">>>>)>>)
FileB == Table(<<>>, "ID", <<"JAN'26", "FEB'26">>,
               <<Row(Id2, <<"1", ",", "0">>, <<<<"L">>, <<"-">>>>)>>)
\* a billing file of village b that also lists resident 1
FileB1 == Table(<<>>, "ID", <<"JAN'26", "FEB'26">>,
                <<Row(Id2, <<"1", ",", "0">>, <<<<"L">>, <<"-">>>>),
                  Row(Id1, <<"5">>, <<<<"0">>, NaN>>)>>)
\* a billing file of village b with a row for an id the roster does not have
FileB3 == Table(<<>>, "ID", <<"JAN'26", "FEB'26">>,
                <<Row(Id3, <<"5">>, <<<<"5">>, NaN>>),
                  Row(<<" ", "1">>, <<"5">>, <<NaN, <<"5">>>>)>>)
\* a table with Nama and Nominal but neither No nor ID
FileNoId == Table(<<>>, "none", <<"JAN'26">>, <<Row(NaN, <<"5">>, <<NaN>>)>>)

\* The state after construction of the store and the watcher object, the
\* observer thread apart.
Constructed(m, b, ord, fw, d) ==
    LET listing == SelectSeq2(ord, [i \in 1..Len(ord) |-> b[ord[i]].st # "missing"])
        dir == [n \in Villages \cup {TmpName} |-> IF n = TmpName THEN NoFile ELSE b[n]]
        r == LoadAll(m, dir, listing)
    IN  /\ master = m /\ billing = b /\ tmp = NoFile /\ order = ord
        /\ df = r.df /\ month_columns = r.months /\ billing_dfs = r.bdfs
        /\ lock = NoOwner /\ file_watcher = fw
        /\ pc = [p \in Procs |-> "idle"] /\ loc = [p \in Procs |-> Idle]
        /\ paused = FALSE /\ timer = NoTimer /\ orphans = {} /\ last_call = 0
        /\ delay = d /\ evq = <<>> /\ now = 0
        /\ committed = [df |-> r.df, months |-> r.months]
        /\ acc = NoAcc /\ burst = NoBurst
        /\ nUpd = 0 /\ nExt = 0

\* ... with the observer started (bot_tagihan.py 186-198).
InitWith(m, b, ord, fw, d) ==
    /\ Constructed(m, b, ord, fw, d)
    /\ hpc = [st |-> "idle", origin |-> "none"]

\* ------------------------------------------------------------------------
\* Spec: the store, a request thread, the watcher and its timer thread,
\* and outside edits of the files.  The clock stands still and the delay is
\* 0 (RELOAD_DELAY is read from the environment, src/config.py:33): a
\* started timer may fire at any later moment, which covers every moment
\* at which a timer of a positive delay fires.
Init ==
    \E ord \in Perms(Villages) :
        InitWith(Master0, [v \in Villages |-> IF v = "a" THEN FileA ELSE FileB], ord, TRUE, 0)

StoreStep(p) ==
    \/ LoadFiles(p) \/ LoadMonths(p)
    \/ ReloadReturn(p)

UpdateStep(p) ==
    \/ StageTitle(p)
    \/ \E ok \in BOOLEAN : StageTable(p, ok)
    \/ PauseWatcher(p)
    \/ \E ok \in BOOLEAN : Replace(p, ok)
    \/ ResumeWatcher(p)
    \/ UpdateReturn(p)

WatcherStep ==
    \/ on_modified \/ on_moved \/ schedule_reload
    \/ \E t \in CbThreads : TimerFire(t) \/ CallbackLock(t)

Next ==
    \/ \E inc \in BOOLEAN : StartUpdate("c1", Id1, "JAN'26", <<"2">>, inc)
    \/ UpdateStep("c1")
    \/ \E p \in {"c1", "t1"} : StoreStep(p)
    \/ WatcherStep
    \/ \E c \in {FileA, FileA2} : ExtEditBilling("a", c)
    \/ \E m \in {Master0, MasterBad} : ExtEditMaster(m)

Spec == Init /\ [][Next]_vars

\* ------------------------------------------------------------------------
\* SpecStore: the store alone, as two request threads of the bot use it
\* (both reload and query, one of them also updates), with no watcher
\* linked, and outside edits of the files.
UpdIds == {Id1, Id2, Id3}
UpdMonths == {"JAN'26", "FEB'26"}
UpdValues == {<<"2", "0", "0", "0", "0">>}

InitStore ==
    \E ord \in Perms(Villages) :
        InitWith(Master0, [v \in Villages |-> IF v = "a" THEN FileA2 ELSE FileB], ord, FALSE, 0)

RequestStep(p) ==
    \/ StartReload(p)
    \/ StartQuery(p) \/ QueryMonths(p)

NextStore ==
    \/ \E p \in Callers : RequestStep(p) \/ StoreStep(p)
    \/ \E id \in UpdIds, m \in UpdMonths, v \in UpdValues, inc \in BOOLEAN :
          StartUpdate("c1", id, m, v, inc)
    \/ UpdateStep("c1")
    \/ \E c \in {FileA, NoFile, BadFile, FileNoId} : ExtEditBilling("a", c)
    \/ \E c \in {FileB1, FileNoId} : ExtEditBilling("b", c)
    \/ ExtEditMaster(MasterBad)

SpecStore == InitStore /\ [][NextStore]_vars

\* ------------------------------------------------------------------------
\* SpecTimed: the watcher under a clock.  The delay is RELOAD_DELAY, events
\* come from repeated saves, the watcher is paused and resumed from outside,
\* and a timer fires at its deadline or later.
InitTimed ==
    InitWith(Master0, [v \in Villages |-> IF v = "a" THEN FileA ELSE FileB], <<"a", "b">>,
             TRUE, DelayTicks)

NextTimed ==
    \/ Touch
    \/ on_modified
    \/ schedule_reload
    \/ \E t \in CbThreads : TimerFire(t) \/ CallbackLock(t) \/ StoreStep(t)
    \/ WatcherPause \/ WatcherResume
    \/ Tick

SpecTimed == InitTimed /\ [][NextTimed]_vars

\* SpecStop: SpecTimed with a watcher that is started or not yet started
\* and a thread that calls start() and stop(), any number of times.
InitStop ==
    /\ Constructed(Master0, [v \in Villages |-> IF v = "a" THEN FileA ELSE FileB], <<"a", "b">>,
                   TRUE, DelayTicks)
    /\ hpc = [st |-> "off", origin |-> "none"]

NextStop ==
    \/ NextTimed
    \/ WatcherStart("c2")
    \/ stop("c2") \/ StopObserver("c2") \/ StopReturn("c2")

SpecStop == InitStop /\ [][NextStop]_vars

\* SpecLive: SpecTimed with the scheduling the threads get.  Time passes;
\* the observer thread that has entered _schedule_reload goes on; a timer
\* thread whose interval has passed runs; a callback that waits for the
\* store lock or loads is not starved.
\* Thread t is inside _load_data or at its return: its next step (LoadFiles,
\* LoadMonths or ReloadReturn) waits for nothing.
Loading(t) == pc[t] \in {"l_files", "l_months", "r_ret"}

Fairness ==
    /\ WF_vars(Tick)
    /\ WF_vars(schedule_reload)
    /\ \A t \in CbThreads :
          WF_vars(TimerFire(t)) /\ WF_vars(CallbackLock(t)) /\ []<>~Loading(t)

SpecLive == InitTimed /\ [][NextTimed]_vars /\ Fairness

\* ------------------------------------------------------------------------
\* SpecQuery: the read-only operations of the store.  The files are drawn
\* from tables with several spellings and years of the month labels and
\* with empty, zero, dash, numeric and free-text cells; two request threads
\* call the operations on the loaded snapshot.
Lunas == Chars("Lunas")
FileQ1 == Table(<<"TAGIHAN A">>, "No", <<"JAN'26", "FEB'26", "AGU'26">>,
                <<Row(Id1, <<"5">>, <<<<"5">>, <<"3">>, Lunas>>)>>)
FileQ2 == Table(<<>>, "No", <<"SEPT'26", "AGU'25", "AUG'24">>,
                <<Row(Id1, <<"5">>, <<<<"7">>, <<" ">>, <<"0">>>>)>>)
FileQ3 == Table(<<>>, "ID", <<"SEP'25", "MAY'26", "MEI'25">>,
                <<Row(Id2, NaN, <<NaN, <<"2">>, <<"-", "-">>>>)>>)
FileQ4 == Table(<<>>, "ID", <<"SEPT'25", "Agu'26">>,
                <<Row(Id2, <<"4">>, <<<<"4">>, <<"0", "0">>>>)>>)

QFiles == [a |-> {FileA2, FileQ1, FileQ2}, b |-> {FileB, FileQ3, FileQ4}]
QMonths == {"JAN'26", "FEB'26", "AGU'26", "feb'26 ", "SEPT'25", "MAR'26", "id"}
QNames == {"agustus", "aug", "mar", "sep", " MEI ", "may", "jan'26", "sept"}
QYears == {Chars("25"), Chars("26")}
QSearch == {"ani", "Budi ", "i", "x"}

InitQuery ==
    \E fa \in QFiles.a, fb \in QFiles.b, ord \in Perms(Villages) :
        InitWith(Master0, [v \in Villages |-> IF v = "a" THEN fa ELSE fb], ord, FALSE, 0)

NextQuery ==
    \E p \in Callers :
        \/ \E m \in QMonths : get_unpaid_by_month(p, m) \/ get_paid_by_month(p, m)
        \/ \E n \in QNames, y \in QYears : resolve_month(p, n, y)
        \/ \E n \in QSearch : get_payment_status(p, n)
        \/ QueryReturn(p)
        \/ Reply(p)

SpecQuery == InitQuery /\ [][NextQuery]_vars

\* ------------------------------------------------------------------------
\* SpecReload: request threads that reload, once or twice in a row, while
\* the files are edited from outside.
InitReload ==
    \E fb \in {FileB, FileB1}, ord \in Perms(Villages) :
        InitWith(Master0, [v \in Villages |-> IF v = "a" THEN FileA2 ELSE fb], ord, FALSE, 0)

NextReload ==
    \/ \E p \in Callers :
          \/ StartReload(p) \/ StoreStep(p)
          \/ ReloadAgain(p) \/ SecondReload(p)
    \/ \E c \in {FileA, NoFile, BadFile, FileNoId} : ExtEditBilling("a", c)
    \/ \E c \in {FileB, FileB1, FileB3, FileQ3} : ExtEditBilling("b", c)
    \/ \E m \in {Master0, MasterBad} : ExtEditMaster(m)

SpecReload == InitReload /\ [][NextReload]_vars

\* ------------------------------------------------------------------------
\* SpecOps: every public operation of the store, called by request threads
\* on a store whose first _load_data succeeded or failed (the roster was
\* unreadable when the store was constructed: self.df is DataFrame()).
OpsMonths == {"JAN'26", "MAR'26"}
OpsNames == {"ani", "x"}

InitOps ==
    \E m \in {Master0, MasterBad} :
        InitWith(m, [v \in Villages |-> IF v = "a" THEN FileA2 ELSE FileB], <<"a", "b">>, FALSE, 0)

NextOps ==
    \/ \E p \in Callers :
          \/ \E m \in OpsMonths : get_unpaid_by_month(p, m) \/ get_paid_by_month(p, m)
          \/ resolve_month(p, "jan", Chars("26"))
          \/ \E n \in OpsNames : get_payment_status(p, n)
          \/ QueryReturn(p) \/ Reply(p)
          \/ StartReload(p) \/ StoreStep(p)
    \/ \E id \in {Id1, Id3}, m \in OpsMonths, inc \in BOOLEAN :
          StartUpdate("c1", id, m, <<"2">>, inc)
    \/ UpdateStep("c1")
    \/ \E m \in {Master0, MasterBad} : ExtEditMaster(m)

SpecOps == InitOps /\ [][NextOps]_vars

\* ------------------------------------------------------------------------
\* SpecWrite: one request thread that updates and reloads, on billing files
\* with title lines, several residents, several columns and a TOTAL line,
\* while the files are edited from outside.  No watcher is linked.
MasterW == [st |-> "ok", rows |-> <<Resident(Id1, "ani", "a"), Resident(Id2, "budi", "b"),
                                    Resident(Id3, "cici", "a")>>]
FileW1 == Table(<<"TAGIHAN A", "2026">>, "No", <<"JAN'26", "FEB'26">>,
                <<Row(Id1, <<"5">>, <<NaN, <<"3">>>>), Row(Id3, <<"5">>, <<<<"5">>, NaN>>),
                  Row(TOTAL, <<"1", "0">>, <<<<"5">>, <<"3">>>>)>>)
\* FileW1 after someone has entered 4 for resident 3 in FEB'26
FileW2 == Table(<<"TAGIHAN A", "2026">>, "No", <<"JAN'26", "FEB'26">>,
                <<Row(Id1, <<"5">>, <<NaN, <<"3">>>>), Row(Id3, <<"5">>, <<<<"5">>, <<"4">>>>),
                  Row(TOTAL, <<"1", "0">>, <<<<"5">>, <<"7">>>>)>>)
\* a billing file of village a that starts in February
FileW3 == Table(<<"TAGIHAN A">>, "No", <<"FEB'26">>,
                <<Row(Id1, <<"5">>, <<<<"3">>>>), Row(Id3, <<"5">>, <<NaN>>)>>)

WIds == {Id1, Id3}
WMonths == {"FEB'26", "MAR'26"}

InitWrite ==
    \E fa \in {FileW1, FileW3}, fb \in {FileB, FileB1}, ord \in Perms(Villages) :
        InitWith(MasterW, [v \in Villages |-> IF v = "a" THEN fa ELSE fb], ord, FALSE, 0)

NextWrite ==
    \/ \E id \in WIds, m \in WMonths, inc \in BOOLEAN : StartUpdate("c1", id, m, <<"2">>, inc)
    \/ UpdateStep("c1")
    \/ StartReload("c1") \/ StoreStep("c1")
    \/ \E c \in {FileW1, FileW2, FileW3} : ExtEditBilling("a", c)

SpecWrite == InitWrite /\ [][NextWrite]_vars

\* ------------------------------------------------------------------------
\* SpecEvents: the watcher under a clock, never paused, with events of csv
\* files and events of directories and of other files.
OtherPaths == {<<TRUE, "billing">>, <<TRUE, "old.csv">>, <<FALSE, "a.txt">>,
               <<FALSE, "a.csv.bak">>, <<FALSE, "csv">>}

NextEvents ==
    \/ Touch
    \/ \E kind \in {"modified", "moved"}, e \in OtherPaths : OtherEvent(kind, e[1], e[2])
    \/ on_modified \/ on_moved
    \/ schedule_reload
    \/ \E t \in CbThreads : TimerFire(t) \/ CallbackLock(t) \/ StoreStep(t)
    \/ Tick

SpecEvents == InitTimed /\ [][NextEvents]_vars

\* ------------------------------------------------------------------------
\* SpecSearch: search_by_name on rosters with distinct names and with one
\* name shared by six residents, for terms that are empty, contained in a
\* name, or close to one.
MasterSame ==
    [st |-> "ok",
     rows |-> [i \in 1..6 |-> Resident(<<Digits[i + 1]>>, "budi", IF i = 1 THEN "a" ELSE "b")]]
SearchTerms == {"", " ", "ud", "bodi", "Ani", "xq"}

InitSearch ==
    \E m \in {Master0, MasterSame}, fa \in {FileA, FileA2} :
        InitWith(m, [v \in Villages |-> IF v = "a" THEN fa ELSE FileB], <<"a", "b">>, FALSE, 0)

NextSearch ==
    \E p \in Callers :
        \/ \E n \in SearchTerms : search_by_name(p, n)
        \/ QueryReturn(p)
        \/ Reply(p)

SpecSearch == InitSearch /\ [][NextSearch]_vars

\* ------------------------------------------------------------------------
\* SpecFresh: Spec with outside edits that leave the billing file well
\* formed, each of them seen by the observer (it runs and takes the event):
\* every reload succeeds, and no event is lost before it is handled.
ExtEditSeen(v, c) ==
    /\ hpc.st \in {"idle", "sched"} /\ Len(evq) < MaxQ
    /\ ExtEditBilling(v, c)

NextFresh ==
    \/ \E inc \in BOOLEAN : StartUpdate("c1", Id1, "JAN'26", <<"2">>, inc)
    \/ UpdateStep("c1")
    \/ \E p \in {"c1", "t1"} : StoreStep(p)
    \/ WatcherStep
    \/ \E c \in {FileA, FileA2} : ExtEditSeen("a", c)

SpecFresh == Init /\ [][NextFresh]_vars

\* ------------------------------------------------------------------------
\* SpecTwo: two request threads that call update_payment in increment mode
\* on one cell at the same time, each with its own amount, and reload;
\* nobody else touches the files.
Amount == [c1 |-> <<"2">>, c2 |-> <<"4">>]

NextTwo ==
    \E p \in Callers :
        \/ StartUpdate(p, Id1, "JAN'26", Amount[p], TRUE)
        \/ UpdateStep(p)
        \/ StartReload(p) \/ StoreStep(p)

SpecTwo == InitStore /\ [][NextTwo]_vars

\* ------------------------------------------------------------------------
\* SpecFair: Spec with a second request thread that reloads and queries,
\* under the scheduling the threads get.  A thread goes on from a position
\* where it waits for nothing; a thread that takes the handler's lock in
\* pause() or resume() gets it; a callback that waits for the store lock
\* gets it if it is free again and again; the observer thread that has
\* entered _schedule_reload goes on.
\* Thread p is idle or at a position where its next step takes a lock.
AtLock(p) == pc[p] \in {"idle", "r_lock", "u_pause", "u_resume"}

NextFair ==
    \/ \E inc \in BOOLEAN : StartUpdate("c1", Id1, "JAN'26", <<"2">>, inc)
    \/ UpdateStep("c1")
    \/ StartReload("c2") \/ StartQuery("c2") \/ QueryMonths("c2")
    \/ \E p \in Procs : StoreStep(p)
    \/ WatcherStep
    \/ ExtEditBilling("a", FileA2)

FairSteps ==
    /\ \A p \in Procs : []<>AtLock(p)
    /\ WF_vars(PauseWatcher("c1")) /\ WF_vars(ResumeWatcher("c1"))
    /\ \A t \in CbThreads : SF_vars(CallbackLock(t))
    /\ WF_vars(schedule_reload)

SpecFair == Init /\ [][NextFair]_vars /\ FairSteps

\* ------------------------------------------------------------------ claims
\* C1: for every interleaving of an event delivery (on_modified / on_moved)
\* with pause(), no debounce timer fires the reload callback after pause()
\* has returned and before the next resume(): no timer fires while the
\* watcher is paused.
C1_NoFireWhilePaused == [][(\E t \in CbThreads : TimerFire(t)) => ~paused]_vars

\* The event was checked before pause() and scheduled after it: a timer
\* waits although the watcher is paused.
C1_TimerWaitsWhilePaused == paused /\ timer.st = "waiting"

\* C2: an update_payment call that returns True causes exactly one reload,
\* its own: the reload callback is never invoked on account of the file
\* events of that write (the write of the staged file, the rename).  The
\* rename only happens in a call that returns True.
C2_NoCallbackForOwnWrite ==
    \A t \in CbThreads : pc[t] # "idle" => loc[t].origin # "selfmove"

\* The callback's reload runs for the rename of an update that has returned.
C2_ReloadAfterOwnWrite ==
    \E t \in CbThreads : pc[t] = "l_files" /\ loc[t].origin = "selfmove" /\ pc["c1"] = "idle"

\* C3: with the watcher not paused, a burst of N >= 1 events, each less than
\* the delay after the one before, causes one invocation of the callback,
\* and only after a quiet period of the delay following the last event:
\* of the timers the burst started exactly one is left, cancelled ones
\* never run, and it waits for last_call + delay or has fired after it.
C3_OneCallbackPerBurst ==
    /\ burst.fires <= 1
    /\ orphans = {}
    /\ burst.len >= 1 /\ burst.fires = 0 =>
          timer.st = "waiting" /\ timer.deadline = last_call + delay
    /\ burst.fires = 1 => timer.st = "fired" /\ burst.quiet >= delay

\* A burst of two or more events, the last later than the first, has had
\* its callback.
C3_BurstFiredOnce == burst.len >= 2 /\ burst.fires = 1 /\ last_call > 0 /\ ~paused

\* What _load_data builds from the files as they are now.
Fresh == LoadAll(master, Dir, Glob)

\* C4: a reload either installs a complete new snapshot and returns True,
\* or returns False and leaves the previous merged records and month
\* labels exactly as they were.
C4_ReloadAllOrNothing ==
    \A p \in Procs : pc[p] = "r_ret" =>
        /\ loc[p].res \in {"true", "false"}
        /\ loc[p].res = "false" =>
              df = loc[p].pre.df /\ month_columns = loc[p].pre.months
        /\ loc[p].res = "true" /\ ~loc[p].dirty =>
              Fresh.ok /\ df = Fresh.df /\ month_columns = Fresh.months

\* A reload has failed on an unparsable master roster while the store held
\* a loaded snapshot.
C4_FailedReloadKeepsSnapshot ==
    \E p \in Procs : /\ pc[p] = "r_ret" /\ loc[p].res = "false"
                     /\ master.st = "bad" /\ df.kind = "merged"

\* C5: every query observes the records and the month labels of one single
\* completed reload.
C5_QuerySeesOneReload ==
    \A p \in Procs : pc[p] = "q_months" =>
        loc[p].qdf = committed.df /\ month_columns = committed.months

\* A query runs on a snapshot that a reload after an outside edit installed.
C5_QueryAfterReload ==
    \E p \in Procs : pc[p] = "q_months" /\ nExt > 0 /\ loc[p].qdf # LoadAll(Master0,
        [n \in Villages \cup {TmpName} |-> IF n = "a" THEN FileA2 ELSE IF n = "b" THEN FileB ELSE NoFile],
        <<"a", "b">>).df

\* C6: once update_payment has returned True, the snapshot is the one
\* rebuilt from the files as written.
C6_ReadYourWrites ==
    \A p \in Procs : pc[p] = "u_ret" /\ loc[p].res = "true" /\ ~loc[p].dirty =>
        Fresh.ok /\ df = Fresh.df /\ month_columns = Fresh.months

\* C7: after a successful reload every id of the master roster has exactly
\* one merged record.
C7_OneRecordPerRosterId ==
    \A p \in Procs : pc[p] = "r_ret" /\ loc[p].res = "true" /\ ~loc[p].dirty =>
        \A i \in 1..Len(master.rows) :
            Cardinality({j \in 1..Len(df.rows) : df.rows[j].ID = strip(master.rows[i].ID)}) = 1

\* C8: whenever update_payment returns False, the billing files hold what
\* they held before the call.
C8_FailedUpdateLeavesFile ==
    \A p \in Procs : pc[p] = "u_ret" /\ loc[p].res = "false" /\ ~loc[p].dirty =>
        billing = loc[p].pre_billing

\* An update has failed after its file was staged (the rename raised).
C8_FailedAfterStaging ==
    \E p \in Procs : /\ pc[p] = "u_ret" /\ loc[p].res = "false" /\ ~loc[p].dirty
                     /\ loc[p].newc # NoFile

\* C9: the rename is the only step of update_payment that changes the
\* target file: until it the billing files hold the old content, after it
\* the complete new content, and never a partially written file.
C9_RenameOnlyChangesTarget ==
    /\ \A v \in Villages : billing[v].st # "partial"
    /\ \A p \in Procs : loc[p].op = "update" /\ ~loc[p].dirty =>
          IF pc[p] \in {"u_stage", "u_table", "u_pause", "u_replace"}
          THEN billing = loc[p].pre_billing
          ELSE IF pc[p] \in {"l_files", "l_months", "u_resume"}
          THEN billing = [loc[p].pre_billing EXCEPT ![loc[p].village] = loc[p].newc]
          ELSE TRUE

\* The staged file is partially written while the target is untouched.
C9_StagedFilePartial ==
    \E p \in Procs : pc[p] = "u_table" /\ tmp.st = "partial" /\ ~loc[p].dirty

\* The cell the last update wrote, as the file holds it now.
AccCell ==
    LET v_df == load_csv(billing[acc.village])
    IN  v_df.rows[FirstRow(v_df, acc.id)].cells[IndexOf(v_df.cols, acc.month)]

\* C10: k successive updates in increment mode with amounts a1..ak leave a
\* cell of parsed amount v holding v + a1 + ... + ak, an update in set mode
\* leaves it holding the given amount.
C10_IncrementAddsSetReplaces ==
    acc # NoAcc => AccCell = Str(acc.val)

\* Two increments in a row have been written to one cell.
C10_TwoIncrements == acc.k = 2 /\ acc.val > 3

\* The ID values of the entries of a list result.
Nos(out) == {out[i].No : i \in 1..Len(out)}

\* The snapshot d holds no ID twice.
DistinctIds(d) == \A i, j \in 1..Len(d.rows) : d.rows[i].ID = d.rows[j].ID => i = j

\* C11: for every month label m of the snapshot, get_unpaid_by_month(m)
\* returns exactly the records whose cell for m is unpaid (empty, zero or
\* dash: is_paid is false) and get_paid_by_month(m) exactly those whose cell
\* is paid, so every record with an ID is in exactly one of the two lists
\* computed on the same snapshot.
C11_ListsPartitionRecords ==
    \A p, q \in Callers :
        (/\ pc[p] = "q_result" /\ loc[p].op = "unpaid"
         /\ pc[q] = "q_result" /\ loc[q].op = "paid"
         /\ loc[p].month = loc[q].month /\ loc[p].qdf = loc[q].qdf
         /\ loc[p].month \in Range(get_month_columns(Columns(loc[p].qdf)))
         /\ DistinctIds(loc[p].qdf))
        => \A i \in 1..Len(loc[p].qdf.rows) :
             LET row == loc[p].qdf.rows[i]
             IN  row.ID # NaN =>
                   /\ row.ID \in Nos(loc[p].out) <=> ~is_paid(Value(row, loc[p].month))
                   /\ row.ID \in Nos(loc[q].out) <=> is_paid(Value(row, loc[p].month))

\* Both lists of a month are held and a record with a zero or dash cell is
\* in neither.
C11_RecordInNeitherList ==
    \E p, q \in Callers :
        /\ pc[p] = "q_result" /\ loc[p].op = "unpaid"
        /\ pc[q] = "q_result" /\ loc[q].op = "paid"
        /\ loc[p].month = loc[q].month /\ loc[p].qdf = loc[q].qdf
        /\ loc[p].month \in Range(get_month_columns(Columns(loc[p].qdf)))
        /\ \E i \in 1..Len(loc[p].qdf.rows) :
             /\ loc[p].qdf.rows[i].ID \notin Nos(loc[p].out) \cup Nos(loc[q].out)
             /\ strip(Value(loc[p].qdf.rows[i], loc[p].month)) \in {<<"0">>, <<"-">>}

\* The spellings under which a month code is known: AGU<->AUG, MEI<->MAY,
\* SEP<->SEPT.
Spellings(code) ==
    {code} \cup (IF code \in {"AGU", "AUG"} THEN {"AGU", "AUG"} ELSE {})
           \cup (IF code \in {"MEI", "MAY"} THEN {"MEI", "MAY"} ELSE {})
           \cup (IF code \in {"SEP", "SEPT"} THEN {"SEP", "SEPT"} ELSE {})

\* Caller p holds the result of resolve_month for a month name or abbreviation.
ResolvedName(p) ==
    /\ pc[p] = "q_result" /\ loc[p].op = "resolve"
    /\ MapGet(lower(strip(Chars(loc[p].month)))) # None

Code(p) == MapGet(lower(strip(Chars(loc[p].month))))

\* The labels of the snapshot under the code of p's input or a spelling of
\* it, and those of the current year among them.
Candidates(p) ==
    {c \in Range(loc[p].pre.months) :
        \E v \in Spellings(Code(p)) : upper(split(Chars(c))[1]) = Chars(v)}
OfThisYear(p) ==
    {c \in Range(loc[p].pre.months) :
        \E v \in Spellings(Code(p)) : upper(Chars(c)) = Chars(v) \o <<"'">> \o loc[p].yr}

\* C12: resolve_month maps a month name or abbreviation to its code and,
\* if the snapshot has a label of the current year under that code or one
\* of its spellings (AGU/AUG, MEI/MAY, SEP/SEPT), returns such a label.
C12_CurrentYearLabel ==
    \A p \in Callers :
        (ResolvedName(p) /\ OfThisYear(p) # {}) => loc[p].out \in OfThisYear(p)

\* "agustus" or "aug" has resolved to the AGU label of the current year.
C12_AgustusResolved ==
    \E p \in Callers :
        /\ ResolvedName(p) /\ loc[p].month \in {"agustus", "aug"}
        /\ loc[p].out = "AGU'26" /\ loc[p].yr = Chars("26")

\* C13: when no label of the current year matches, resolve_month returns,
\* among the labels whose code is the input's code or one of its spellings,
\* one with the greatest year suffix, and None exactly when there is none.
C13_LatestYearLabel ==
    \A p \in Callers :
        (ResolvedName(p) /\ OfThisYear(p) = {}) =>
            /\ loc[p].out = None <=> Candidates(p) = {}
            /\ loc[p].out # None =>
                 /\ loc[p].out \in Candidates(p)
                 /\ \A c \in Candidates(p) : ~StrLess(YearKey(loc[p].out), YearKey(c))

\* A name has resolved to a label of an earlier year.
C13_EarlierYearResolved ==
    \E p \in Callers :
        /\ ResolvedName(p) /\ OfThisYear(p) = {}
        /\ loc[p].out # None /\ Cardinality(Candidates(p)) > 1

\* Caller p holds the status of a record.
StatusHeld(p) == pc[p] = "q_result" /\ loc[p].op = "status" /\ loc[p].out.found

\* The cell is empty, a dash or a zero amount.
UnpaidCell(v) ==
    \/ v = NaN \/ strip(v) = <<>> \/ strip(v) = <<"-">>
    \/ KeepDigits(v) # <<>> /\ ToInt(KeepDigits(v)) = 0

\* C14: get_payment_status classifies each month cell of the record against
\* its required amount R: an empty, zero or dash cell is unpaid; a cell with
\* amount a, 0 < a < R, is paid and partial; a cell with a >= R, or a text
\* without digits such as "Lunas", is paid and not partial.
C14_StatusClassifiesCells ==
    \A p \in Callers :
        StatusHeld(p) =>
            \A m \in Range(loc[p].pre.months) :
                LET st == loc[p].out
                    v  == Value(st.row, m)
                    a  == parse_nominal(v)
                    unpaid  == m \in Range(st.unpaid_months)
                    paid    == m \in Range(st.paid_months)
                    partial == m \in Range(st.partial_months)
                IN  /\ UnpaidCell(v) => unpaid /\ ~paid /\ ~partial
                    /\ (~UnpaidCell(v) /\ 0 < a /\ a < st.Nominal) => paid /\ partial /\ ~unpaid
                    /\ (~UnpaidCell(v) /\ (a >= st.Nominal \/ KeepDigits(v) = <<>>))
                          => paid /\ ~partial /\ ~unpaid

\* A status with a partial month, an unpaid month and a month paid with "Lunas".
C14_AllThreeKinds ==
    \E p \in Callers :
        /\ StatusHeld(p)
        /\ loc[p].out.partial_months # <<>> /\ loc[p].out.unpaid_months # <<>>
        /\ \E m \in Range(loc[p].out.paid_months) :
             /\ Value(loc[p].out.row, m) = Lunas
             /\ m \notin Range(loc[p].out.partial_months)

\* Caller p is at the return of the second of two reload_data() calls in a
\* row, and no source file changed since the first call began.
SecondReloadDone(p) ==
    /\ pc[p] = "r_ret" /\ loc[p].op = "reload" /\ loc[p].out # <<>>
    /\ ~loc[p].dirty /\ ~loc[p].out[1].dirty

\* C15: two reloads in a row with no change of a source file in between
\* give two snapshots with the same records, the same cell values and the
\* same sequence of month labels (and the same result).
C15_ReloadIdempotent ==
    \A p \in Callers :
        SecondReloadDone(p) =>
            /\ df = loc[p].out[1].df
            /\ month_columns = loc[p].out[1].months
            /\ loc[p].res = loc[p].out[1].res

\* Two successful reloads in a row of a merged snapshot with month labels,
\* read from files that were edited before the first one.
C15_TwoReloadsDone ==
    \E p \in Callers :
        /\ SecondReloadDone(p) /\ loc[p].res = "true"
        /\ nExt > 0 /\ df.kind = "merged" /\ Len(month_columns) > 1

\* C16: pause(), in any state of the watcher, cancels a pending timer, so
\* that no started timer is left that could invoke the callback; and an
\* event delivered to on_modified / on_moved while the watcher is paused is
\* dropped: the step takes it from the queue and changes nothing else, so it
\* starts no timer and leaves nothing behind that could cause a callback
\* during the pause or after resume().
C16_PauseCancelsAndDrops ==
    [][/\ (~paused /\ paused') => LiveTimers' = {}
       /\ (paused /\ evq # <<>> /\ evq' = Tail(evq))
             => UNCHANGED <<paused, timer, orphans, last_call, delay, hpc, burst, pc, loc>>]_vars

\* The watcher was paused while a timer was pending (its deadline is still
\* ahead and no callback runs), and an event is about to be delivered.
C16_PendingCancelledEventWaiting ==
    /\ paused /\ timer = NoTimer /\ last_call > 0 /\ now < last_call + delay
    /\ evq # <<>> /\ hpc.st = "idle"
    /\ \A t \in CbThreads : pc[t] = "idle"

\* A timer waits whose deadline the clock of the model reaches.
Pending == timer.st = "waiting" /\ timer.deadline <= MaxTime

\* The timer has fired and the callback was invoked once for its burst.
FiredOnce ==
    /\ timer.st = "fired" /\ burst.fires = 1
    /\ \E t \in CbThreads : pc[t] # "idle"

\* pause() was called since, or a further event was scheduled with a
\* deadline the clock of the model does not reach.
Followed == timer = NoTimer \/ (timer.st = "waiting" /\ timer.deadline > MaxTime)

\* C17: when an event was accepted and its timer scheduled, then, unless
\* pause() follows, the timer (or the timer of the last of the further
\* events, which are finitely many) eventually fires and the callback is
\* invoked exactly once for it; and the next accepted event, which finds the
\* fired timer, gets a new timer.
C17_TimerEventuallyFires ==
    /\ Pending ~> (FiredOnce \/ Followed)
    /\ (hpc.st = "sched" /\ timer.st = "fired") ~> (hpc.st = "idle" /\ timer.st = "waiting")

\* A timer has fired, its callback still runs, and the next event has a
\* new timer.
C17_NewTimerAfterFire ==
    /\ timer.st = "waiting" /\ burst.len = 1 /\ ~paused
    /\ \E t \in CbThreads : pc[t] # "idle"

\* Thread p is in a stop() that was called while the observer had ended or
\* was never started and no timer was pending.
StoppedBefore(p) ==
    /\ loc[p].op = "stop"
    /\ loc[p].out[1].hpc.st \in {"off", "stopped"}
    /\ loc[p].out[1].live = {}

\* Thread p is in a stop(): line 168 is done.
InStop(p) == pc[p] \in {"s_observer", "s_join"}

\* C18: stop() cancels a pending timer: when event_handler.stop() is done
\* no started timer is left that could fire.  And stop() is idempotent:
\* called again, or with no timer pending, or on a watcher that was never
\* started, it leaves the pending timers, the observer thread and its queue
\* as it found them.
C18_StopCancelsIdempotent ==
    /\ [][\A p \in Callers : (pc[p] = "idle" /\ pc'[p] = "s_observer") => LiveTimers' = {}]_vars
    /\ [](\A p \in Callers : (InStop(p) /\ StoppedBefore(p)) => WatcherState = loc[p].out[1])

\* A second stop() is about to return on a watcher whose first stop()
\* cancelled a pending timer.
C18_StoppedTwice ==
    \E p \in Callers :
        /\ pc[p] = "s_join" /\ StoppedBefore(p)
        /\ hpc.st = "stopped" /\ last_call > 0 /\ now < last_call + delay

\* The billing files of the directory that load as a table with an ID
\* column; the others are missing, unreadable or malformed.
Usable(n) == load_csv(Dir[n]).ok /\ load_csv(Dir[n]).hasID
Remaining == SelectSeq(Glob, Usable)

\* Thread p is at the return of a reload during which no file changed,
\* with a readable master roster.
ReloadDone(p) ==
    /\ pc[p] = "r_ret" /\ loc[p].op = "reload" /\ ~loc[p].dirty
    /\ load_master_data(master).ok

\* C19: a billing file that is missing or cannot be parsed is skipped and
\* does not fail the reload: the reload returns True, the snapshot is the
\* one built from the master roster and the remaining billing files, and
\* every resident of the roster is a record of it (those of the skipped file
\* with empty monthly values).
C19_BadBillingFileSkipped ==
    \A p \in Callers :
        ReloadDone(p) =>
            /\ loc[p].res = "true"
            /\ df = LoadAll(master, Dir, Remaining).df
            /\ \A i \in 1..Len(master.rows) :
                  \E j \in 1..Len(df.rows) : df.rows[j].ID = strip(master.rows[i].ID)

\* A reload has returned True with the file of village a missing or
\* unreadable: resident 1 is a record with empty monthly values.
C19_SkippedFileResidentKept ==
    \E p \in Callers :
        /\ ReloadDone(p) /\ loc[p].res = "true"
        /\ billing["a"].st \in {"missing", "bad"}
        /\ month_columns # <<>>
        /\ \E j \in 1..Len(df.rows) :
              df.rows[j].ID = Id1 /\ \A c \in Range(month_columns) : df.rows[j].cells[c] = NaN

\* The rows of the billing frames whose stripped ID is id.
BillingRowsOf(id) ==
    SelectSeq(CombinedRows(load_billing_data(Dir, Glob)), LAMBDA b : b.ID = id)

\* The records of the snapshot whose ID is id.
RecordsOf(id) == SelectSeq(df.rows, LAMBDA r : r.ID = id)

RosterIds == {strip(master.rows[i].ID) : i \in 1..Len(master.rows)}

\* C20: the snapshot is a left join on the roster: the ID of every record
\* is an ID of the roster; a billing row whose ID is not in the roster gives
\* no record (the records of an ID are as many as its billing rows, one if it
\* has none); an ID of the roster without billing row is present once, with
\* empty Nominal and empty month cells.
C20_LeftJoinOnRoster ==
    \A p \in Callers :
        (ReloadDone(p) /\ loc[p].res = "true") =>
            /\ \A j \in 1..Len(df.rows) : df.rows[j].ID \in RosterIds
            /\ \A id \in RosterIds :
                  /\ BillingRowsOf(id) # <<>> => Len(RecordsOf(id)) = Len(BillingRowsOf(id))
                  /\ BillingRowsOf(id) = <<>> =>
                        /\ Len(RecordsOf(id)) = 1
                        /\ RecordsOf(id)[1].Nominal = NaN
                        /\ \A c \in Range(month_columns) : RecordsOf(id)[1].cells[c] = NaN

\* A reload has merged a billing row of an ID the roster does not have and
\* a roster ID no billing row has.
C20_UnmatchedOnBothSides ==
    \E p \in Callers :
        /\ ReloadDone(p) /\ loc[p].res = "true" /\ df.kind = "merged"
        /\ BillingRowsOf(Id3) # <<>>
        /\ \E id \in RosterIds : BillingRowsOf(id) = <<>>


\* C21: when os.replace of update_payment raises, the call goes straight to
\* its return with False, without _load_data, and self.df and
\* self.month_columns are what they were when the call began; they still
\* are when a failed call is about to return.
C21_FailedReplaceKeepsSnapshot ==
    /\ [][\A p \in Callers : Replace(p, FALSE) =>
              /\ pc'[p] = "u_ret" /\ loc'[p].res = "false"
              /\ df' = loc[p].pre.df /\ month_columns' = loc[p].pre.months]_vars
    /\ [](\A p \in Callers : pc[p] = "u_ret" /\ loc[p].res = "false" =>
              df = loc[p].pre.df /\ month_columns = loc[p].pre.months)

\* The rename has failed: the watcher was paused for it, the staged file is
\* gone, and the call is about to return False on a loaded snapshot.
C21_ReplaceFailed ==
    \E p \in Callers : /\ pc[p] = "u_ret" /\ loc[p].res = "false" /\ paused
                        /\ tmp = NoFile /\ df.kind = "merged"

\* C22: no public operation of the store raises to its caller, whatever the
\* state of the store, a store whose first load failed included: no call is
\* about to leave _sync_locked_call with an exception.
C22_NoOperationRaises ==
    \A p \in Callers : loc[p].res # "raise"

\* On a store whose first load failed a list, a status and a month query
\* have returned their empty or not-found result.
C22_EmptyStoreAnswers ==
    \E p \in Callers :
        /\ pc[p] = "q_result" /\ loc[p].op \in {"unpaid", "paid", "status", "resolve"}
        /\ df = EmptyDF /\ loc[p].qdf = EmptyDF

\* C23: get_unpaid_by_month and get_paid_by_month return the empty list for
\* every label that, upper-cased and stripped as the two operations do,
\* is not one of self.month_columns, a label naming another column of
\* self.df included.
C23_UnknownLabelListsEmpty ==
    \A p \in Callers :
        (/\ pc[p] = "q_return" /\ loc[p].op \in {"unpaid", "paid"}
         /\ \A i \in 1..Len(month_columns) :
               Chars(month_columns[i]) # strip(upper(Chars(loc[p].month))))
        => loc[p].out = <<>>

\* A list was asked for a label no billing file has, on a snapshot with
\* records and month labels, and is empty.
C23_AbsentLabelEmpty ==
    \E p \in Callers :
        /\ pc[p] = "q_return" /\ loc[p].op = "paid" /\ loc[p].month = "MAR'26"
        /\ loc[p].out = <<>> /\ df.rows # <<>> /\ month_columns # <<>>

\* The target file of the update of thread p has been renamed into place
\* and nobody has touched the files since the call began.
Written(p) ==
    /\ loc[p].op = "update" /\ ~loc[p].dirty
    /\ pc[p] \in {"l_files", "l_months", "u_resume"}

SameButCell(before, after, idx, month) ==
    /\ Len(after.rows) = Len(before.rows)
    /\ \A i \in 1..Len(before.rows) :
          /\ after.rows[i].ID = before.rows[i].ID
          /\ after.rows[i].Nominal = before.rows[i].Nominal
          /\ \A k \in 1..Len(before.cols) :
                i # idx \/ before.cols[k] # month =>
                    after.rows[i].cells[k] = before.rows[i].cells[k]

\* C25: load_csv of the target file after a successful update_payment gives
\* the table load_csv gave before it, one cell apart: the same rows, the
\* same columns in the same order (with the month label as a further
\* column where the file did not have it) and the same values except in
\* the cell of the given id and month; in increment and in set mode.
C25_OneCellChanged ==
    \A p \in Callers : Written(p) =>
        LET before == load_csv(loc[p].pre_billing[loc[p].village])
            after  == load_csv(billing[loc[p].village])
        IN  /\ after.ok
            /\ after.cols \in {before.cols, Append(before.cols, loc[p].month)}
            /\ SameButCell(before, after, FirstRow(before, loc[p].id), loc[p].month)

\* An amount was set for a month the file has: the file parses to the same
\* table with that one cell changed and another resident's row as it was.
C25_SetKnownMonth ==
    \E p \in Callers :
        /\ Written(p) /\ ~loc[p].inc /\ loc[p].month = "FEB'26" /\ loc[p].id = Id3
        /\ loc[p].pre_billing["a"] = FileW1
        /\ load_csv(billing["a"]).rows[2].cells[2] = <<"2">>
        /\ load_csv(billing["a"]).rows[1].cells = FileW1.rows[1].cells

\* The billing source of the record update_payment of thread p took from
\* the snapshot it was called on, the first record with the id: its
\* Source_Village; where the snapshot is the roster alone and no record has
\* billing data, the village of the roster row; "" if there is no record.
SourceFile(p) ==
    LET d    == loc[p].pre.df
        hits == SelectSeq2(d.rows, [i \in 1..Len(d.rows) |-> strip(d.rows[i].ID) = loc[p].id])
    IN  IF hits = <<>> THEN ""
        ELSE IF d.kind = "merged" THEN hits[1].src ELSE hits[1].Desa

\* C26: no step of update_payment, whatever its outcome, changes the master
\* roster or a billing file other than the one the record's billing row
\* came from (Source_Village).
C26_WritesOnlySourceFile ==
    [][\A p \in Callers :
          loc[p].op = "update" /\ (UpdateStep(p) \/ StoreStep(p)) =>
              /\ master' = master
              /\ \A v \in Villages : billing'[v] # billing[v] => v = SourceFile(p)
              /\ Cardinality({v \in Villages : billing'[v] # billing[v]}) <= 1]_vars

\* Resident 1 of village a has the billing row in b.csv: the update has
\* written b.csv and a.csv is as it was.
C26_WroteOtherVillageFile ==
    \E p \in Callers :
        /\ Written(p) /\ loc[p].id = Id1 /\ SourceFile(p) = "b"
        /\ billing["b"] # loc[p].pre_billing["b"]
        /\ billing["a"] = loc[p].pre_billing["a"] /\ billing["a"].st = "ok"

\* The lines before the header row of the target file are, after the
\* rename, the lines the file had there when the call began.
PreambleKept(p) ==
    billing[loc[p].village].pre = loc[p].pre_billing[loc[p].village].pre

\* C27: after a successful update_payment the new file starts with the
\* title lines of the old file, verbatim and in order, and the serialized
\* table (one header row, then the rows) follows directly beneath them: no
\* other line stands between the title lines and the table or inside it.
C27_PreambleThenTable ==
    \A p \in Callers : Written(p) =>
        /\ PreambleKept(p)
        /\ ~billing[loc[p].village].hdr2

\* A file with two title lines was updated and starts with both.
C27_TwoTitleLinesKept ==
    \E p \in Callers :
        /\ Written(p) /\ loc[p].village = "a" /\ PreambleKept(p)
        /\ billing["a"].pre = <<"TAGIHAN A", "2026">> /\ billing["a"].rows # <<>>

\* C28: when update_payment is about to return, with True or with False
\* from whatever step, the file mkstemp created is no longer in the billing
\* directory (renamed or removed); no file of that kind exists while no
\* update runs, and every _load_data lists the directory without it.
C28_NoTemporaryFileLeft ==
    /\ \A p \in Callers : pc[p] \in {"u_ret", "l_files"} => tmp = NoFile
    /\ (\A p \in Callers : loc[p].op # "update") => tmp = NoFile
    /\ \A i \in 1..Len(billing_dfs) : billing_dfs[i].village \in Villages

\* A first update was renamed into place, a second one failed after its
\* file was staged, and the directory holds no staged file.
C28_StagedFileRemoved ==
    \E p \in Callers :
        /\ pc[p] = "u_ret" /\ loc[p].res = "false" /\ loc[p].newc # NoFile
        /\ nUpd = 2 /\ billing[loc[p].village].hdr2 /\ tmp = NoFile

\* The month labels of a header row: data_loader.py 89-92 on one file.
HeaderMonths(bdf) == get_month_columns(bdf.cols)

\* Sequence s has every element once.
NoRepeat(s) == \A i, j \in 1..Len(s) : s[i] = s[j] => i = j

\* Label x stands before label y in sequence s.
Before(s, x, y) ==
    \E i, j \in 1..Len(s) : i < j /\ s[i] = x /\ s[j] = y

\* C29: after every successful reload self.month_columns holds exactly the
\* columns of the loaded billing files that follow Nominal and contain an
\* apostrophe, each once, and in the order of the source header: two labels
\* of one header stand in month_columns as they stand in that header, with
\* one file or several, after reloads and after updates.
C29_MonthsInHeaderOrder ==
    \A p \in Callers : pc[p] = "r_ret" /\ loc[p].res = "true" =>
        /\ NoRepeat(month_columns)
        /\ Range(month_columns) =
              UNION {Range(HeaderMonths(billing_dfs[i].bdf)) : i \in 1..Len(billing_dfs)}
        /\ \A i \in 1..Len(billing_dfs) :
              \A x, y \in Range(HeaderMonths(billing_dfs[i].bdf)) :
                  Before(HeaderMonths(billing_dfs[i].bdf), x, y) => Before(month_columns, x, y)

\* A reload after an update has merged two files with the same header
\* order into the labels of that header.
C29_SameOrderAfterUpdate ==
    \E p \in Callers :
        /\ pc[p] = "r_ret" /\ loc[p].res = "true" /\ nUpd > 0 /\ Len(billing_dfs) = 2
        /\ billing["a"].hdr2 /\ month_columns = <<"JAN'26", "FEB'26">>

\* C30: an event of a directory, or of a path that does not end in .csv,
\* never starts or restarts the debounce timer and never leads to the
\* reload callback: the observer never enters _schedule_reload for it, no
\* timer was started for it, and no callback runs for it.
C30_OnlyCsvEventsCount ==
    /\ hpc.origin # "other"
    /\ timer.origin # "other"
    /\ \A tm \in orphans : tm.origin # "other"
    /\ \A t \in CbThreads : loc[t].origin # "other"

\* The one event so far was of a directory or of another file; it has been
\* handled, time has passed, and there is no timer and no callback.
C30_OtherEventIgnored ==
    /\ nExt = 1 /\ evq = <<>> /\ hpc.st = "idle" /\ now > DelayTicks
    /\ timer = NoTimer /\ orphans = {}
    /\ \A t \in CbThreads : pc[t] = "idle"

\* No name of snapshot d contains the normalized term.
NoSubstringMatch(d, name) ==
    \A i \in 1..Len(d.rows) : ~Contains(lower(Chars(d.rows[i].Nama)), normalize_name(name))

\* C31: search_by_name returns at most 5 records whenever no name contains
\* the term and get_close_matches is used, also on a roster in which
\* several residents have the same name; an empty term returns no record.
C31_FuzzyAtMostFive ==
    \A p \in Callers : pc[p] = "q_return" /\ loc[p].op = "search" =>
        /\ normalize_name(loc[p].month) = <<>> => loc[p].out = <<>>
        /\ NoSubstringMatch(loc[p].qdf, loc[p].month) => Len(loc[p].out) <= CloseMatchLimit

\* The fallback has returned the one resident whose name is close to a
\* term no name contains.
C31_FallbackUsed ==
    \E p \in Callers :
        /\ pc[p] = "q_return" /\ loc[p].op = "search" /\ loc[p].month = "bodi"
        /\ NoSubstringMatch(loc[p].qdf, "bodi") /\ Len(loc[p].qdf.rows) = 2
        /\ Len(loc[p].out) = 1 /\ loc[p].out[1].Nama = "budi"

\* C32: in every update_payment call that gets as far as the rename, the
\* steps come in this order: the new content is complete in the staged
\* file when the watcher is paused; the watcher is paused and the staged
\* file complete when it is renamed over the billing file; the call's own
\* _load_data runs with the watcher paused and the file renamed; and the
\* watcher is resumed only when that _load_data has returned, after which
\* the call returns True.
C32_UpdateStepOrder ==
    [][\A p \in Callers : loc[p].op = "update" =>
          /\ PauseWatcher(p) => tmp = loc[p].newc /\ paused' /\ pc[p] = "u_pause"
          /\ Replace(p, TRUE) => paused /\ tmp = loc[p].newc /\ tmp' = NoFile
          /\ LoadFiles(p) \/ LoadMonths(p) => paused /\ paused' /\ tmp = NoFile
          /\ paused /\ ~paused' => /\ ResumeWatcher(p) /\ pc[p] = "u_resume"
                                    /\ pc'[p] = "u_ret" /\ loc'[p].res = "true"
          /\ pc[p] # "u_ret" /\ pc'[p] = "u_ret" /\ loc'[p].res = "true" =>
                ResumeWatcher(p)]_vars

\* An update has been staged, the watcher paused, the file renamed and
\* reloaded and the watcher resumed: the call is about to return True.
C32_AllStepsDone ==
    \E p \in Callers :
        /\ pc[p] = "u_ret" /\ loc[p].res = "true" /\ ~loc[p].dirty /\ ~paused
        /\ tmp = NoFile /\ billing[loc[p].village] = loc[p].newc
        /\ df # loc[p].pre.df

\* C33: the watcher is paused only while an update_payment call is in
\* progress: whenever no call is in progress - every call has returned,
\* with True or with False, a call whose rename failed included - the
\* linked watcher is not paused.
C33_PausedOnlyDuringUpdate ==
    (\A p \in Callers : loc[p].op # "update") => ~paused

\* An update that renamed its file has returned and the watcher takes
\* events again.
C33_ResumedAfterUpdate ==
    /\ \A p \in Callers : pc[p] = "idle"
    /\ nUpd > 0 /\ ~paused /\ \E v \in Villages : billing[v].hdr2

\* Nothing is in progress and nothing is pending: no operation runs, the
\* observer has no event left and handles none, no started timer can fire.
Quiescent ==
    /\ \A p \in Procs : pc[p] = "idle"
    /\ evq = <<>> /\ hpc.st = "idle" /\ LiveTimers = {}

\* C34: a change made to a billing file from outside, at any time, a time
\* at which update_payment has the watcher paused included, is eventually
\* read by a reload that completes: when nothing is in progress or pending
\* any more, the snapshot is the one built from the files as they are.
C34_OutsideChangeReflected ==
    Quiescent => Fresh.ok /\ df = Fresh.df /\ month_columns = Fresh.months

\* An outside edit has been picked up by the callback's reload: nothing is
\* pending, no update ran, and the snapshot holds the edited cell.
C34_EditReloaded ==
    /\ Quiescent /\ nExt = 1 /\ nUpd = 0 /\ billing["a"] = FileA2
    /\ df = Fresh.df /\ df # LoadAll(Master0, [n \in Villages \cup {TmpName} |->
                                 IF n = "a" THEN FileA ELSE IF n = "b" THEN FileB ELSE NoFile],
                                 <<"a", "b">>).df

\* The lines of file content c below its header row(s) that are not the
\* line of the record with the given id.
OtherLines(c, id_str) ==
    SelectSeq(c.rows, LAMBDA r : r.ID = NaN \/ strip(r.ID) # id_str)

\* C35: a successful update_payment neither adds nor removes a line of the
\* target file: the title lines, the header row (once, as before), and
\* every line below it other than the line of the target record - data
\* rows and lines load_csv excludes, such as a TOTAL line - are in the new
\* file as they were, and the file has as many lines as before.
C35_LinesKept ==
    \A p \in Callers : Written(p) =>
        LET old == loc[p].pre_billing[loc[p].village]
            new == billing[loc[p].village]
        IN  /\ new.pre = old.pre
            /\ new.hdr2 = old.hdr2
            /\ Len(new.rows) = Len(old.rows)
            /\ OtherLines(new, loc[p].id) = OtherLines(old, loc[p].id)

\* The file with a TOTAL line was updated for resident 1: the line of
\* resident 3 is in the new file as it was, the TOTAL line is not.
C35_DataLineKeptTotalLost ==
    \E p \in Callers :
        /\ Written(p) /\ loc[p].id = Id1 /\ loc[p].pre_billing["a"] = FileW1
        /\ loc[p].village = "a" /\ loc[p].month = "FEB'26"
        /\ \E i \in 1..Len(billing["a"].rows) : billing["a"].rows[i] = FileW1.rows[2]
        /\ \A i \in 1..Len(billing["a"].rows) : billing["a"].rows[i].ID # TOTAL

\* The amount in cell JAN'26 of resident 1 in a.csv, as the file holds it.
CellNow ==
    LET v_df == load_csv(billing["a"])
    IN  parse_nominal(v_df.rows[FirstRow(v_df, Id1)].cells[IndexOf(v_df.cols, "JAN'26")])

\* C36: two update_payment calls in increment mode on one cell, issued by
\* two threads at the same time and both renamed into place, are not lost
\* against each other: the cell held 3 and holds 3 + 2 + 4 afterwards.
C36_BothIncrementsKept ==
    acc.k = 2 /\ acc.by = Callers => CellNow = 3 + 2 + 4

\* Each thread has added its amount and the second call is about to
\* return True.
C36_BothWritten ==
    /\ acc.k = 2 /\ acc.by = Callers /\ CellNow = 9
    /\ \E p \in Callers : pc[p] = "u_ret" /\ loc[p].res = "true" /\ loc[p].inc

\* C37: the store lock and the handler's lock never deadlock: whatever the
\* interleaving of events, callbacks of fired timers, reloads, queries and
\* update_payment (which calls pause() and resume() inside the store
\* lock), an operation that has started eventually completes: a thread
\* that is in an operation is idle again later, and the observer thread
\* that has entered _schedule_reload returns from it.
C37_StartedCompletes ==
    /\ \A p \in Procs : (pc[p] # "idle") ~> (pc[p] = "idle")
    /\ (hpc.st = "sched") ~> (hpc.st = "idle")

\* The update is about to call pause() inside the store lock while the
\* callback of a fired timer waits for the store lock and the observer
\* thread is in a handler.
C37_AllContend ==
    /\ pc["c1"] = "u_pause" /\ lock = "c1"
    /\ pc["t1"] = "r_lock"
    /\ hpc.st = "sched"

\* A stop() has told the observer to stop and no thread is inside stop():
\* that stop() has returned.
StopReturned ==
    /\ hpc.st \in {"sched_stop", "stopped"}
    /\ \A p \in Callers : ~InStop(p)

\* C38: once CSVFileWatcher.stop() has returned the reload callback is not
\* invoked again, also when a csv event was delivered while stop() ran: no
\* timer fires in a state where stop() has returned.
C38_NoCallbackAfterStop ==
    [][StopReturned => \A t \in CbThreads : ~(pc[t] = "idle" /\ pc'[t] = "r_lock")]_vars

\* stop() has returned, the observer thread has ended, and a timer that a
\* handler started after the cancel waits for its deadline.
C38_TimerLeftAfterStop ==
    /\ StopReturned /\ hpc.st = "stopped"
    /\ timer.st = "waiting" /\ orphans = {}

\* C39: at every moment at most one started timer of the handler is neither
\* cancelled nor fired; a step that gives self.timer a new value leaves
\* the timer it held among the live ones in no case (a waiting one is
\* cancelled, or it fires in that step); and when the timer it held has
\* fired already, cancelling it changes nothing for the callback that runs.
C39_AtMostOneLiveTimer ==
    /\ [](Cardinality(LiveTimers) <= 1)
    /\ [][timer' # timer => timer \notin LiveTimers']_vars
    /\ [][timer.st = "fired" /\ timer' # timer =>
              \A t \in CbThreads : pc'[t] = pc[t] /\ loc'[t] = loc[t]]_vars

\* The callback of a fired timer loads while two further events have come:
\* the first got a new timer after the fired one, the second replaced it.
C39_ReplacedWhileCallbackRuns ==
    /\ pc["t1"] \in {"l_files", "l_months"}
    /\ timer.st = "waiting" /\ burst.len = 2
    /\ LiveTimers = {timer}

\* The entries of sequence s that are members of set S, in the order of s.
Within(s, S) == SelectSeq(s, LAMBDA m : m \in S)

\* C40: in every status get_payment_status returns, each month label of
\* the snapshot is in exactly one of paid_months and unpaid_months, both
\* lists are in the order of the month labels, and every month of
\* partial_months is in paid_months and not in unpaid_months.
C40_StatusListsPartitionMonths ==
    \A p \in Callers :
        StatusHeld(p) =>
            LET st      == loc[p].out
                months  == loc[p].pre.months
                paid    == Range(st.paid_months)
                unpaid  == Range(st.unpaid_months)
                partial == Range(st.partial_months)
            IN  /\ paid \cup unpaid = Range(months)
                /\ paid \cap unpaid = {}
                /\ Len(st.paid_months) + Len(st.unpaid_months) = Len(months)
                /\ st.paid_months = Within(months, paid)
                /\ st.unpaid_months = Within(months, unpaid)
                /\ st.partial_months = Within(months, partial)
                /\ partial \subseteq paid
                /\ partial \cap unpaid = {}

\* A status over three month labels or more with a paid month and an
\* unpaid month whose cell is a zero or a dash.
C40_ZeroCellUnpaid ==
    \E p \in Callers :
        /\ StatusHeld(p)
        /\ Len(loc[p].pre.months) >= 3
        /\ loc[p].out.paid_months # <<>>
        /\ \E m \in Range(loc[p].out.unpaid_months) :
             strip(Value(loc[p].out.row, m)) \in {<<"0">>, <<"-", "-">>}
====
